---- MODULE Spec2Model ----
(***************************************************************************)
(* Model of the Farabi research engine backend: the deep-research pipeline *)
(* (routers/research_pipeline.py: start_deep_research), the /multi-search  *)
(* fan-out (multi_search), the smart-fallback search (search_with_fallback)*)
(* and the collaborators they call (search_papers_internal, the Decomposer,*)
(* the Content Fetcher, the Insight Extractor, the Narrator, the Editor).  *)
(*                                                                         *)
(* Python None is the string "None".  A paper keeps the fields the control *)
(* flow and the references read (paperId, title, abstract, year, url,      *)
(* openAccessPdf); authors and citationCount are copied through by the     *)
(* code and are left out, and so is word_count.                            *)
(***************************************************************************)
EXTENDS Integers, Sequences, FiniteSets, TLC

VARIABLES
    endpoint,            \* which handler serves the request
    enable_full_text,    \* DeepResearchRequest.enable_full_text
    GROQ_API_KEY,        \* TRUE iff the LLM credential is configured
    pc,                  \* the stage the run is in
    stages,              \* history: the stages entered, in order
    calls,               \* history: the collaborators called so far
    sub_queries,         \* the sub-query list being searched
    search_results,      \* per sub-query index: the task's state and result
    completed,           \* history: task indices in completion order
    all_papers,          \* merge accumulator (list)
    seen_ids,            \* merge accumulator (set of paperId)
    papers_with_content, \* papers handed to the later stages
    analysis_input,      \* papers handed to the Insight Extractor
    insights,            \* analyze_response.insights
    research_report,     \* the Narrator's return value
    full_text_count,     \* start_deep_research's full_text_count
    reasoning,           \* the Decomposer's reasoning string
    script_result,       \* the Editor's return value
    response,            \* what the handler returned or raised
    fb,                  \* search_with_fallback: the request's local state
    batch,               \* fetch_multiple_papers_content: the call's local state
    dec,                 \* generate_sub_queries: the call's state
    handoff,             \* history: what the run handed to the LLM stages
    direct               \* an LLM stage called on its own: the call's state

vars == <<endpoint, enable_full_text, GROQ_API_KEY, pc, stages, calls,
          sub_queries, search_results, completed, all_papers, seen_ids,
          papers_with_content, analysis_input, insights, research_report,
          full_text_count, reasoning, script_result, response, fb, batch,
          dec, handoff, direct>>

(***************************************************************************)
(* Bounds of the model.                                                    *)
(***************************************************************************)
MaxSubQueries == 2
MaxResults == 2
MaxInsights == 1
MaxFallbackResults == 3
MaxKeywordLen == 7
MaxBatch == 3
MaxBatchLimit == 2
MaxLlmQueries == 3
MaxPapers == 11

(***************************************************************************)
(* Program constants.                                                      *)
(***************************************************************************)
MAX_CONTENT_LENGTH == 15000
TruncationMarkerLen == 42
FullTextMinLen == 2000
JinaMinLen == 200
FetchMaxPapers == 8
AnalysisLimit == 10
FallbackThreshold == 3
SearchLimit == 8
BroadWordCount == 3

None == "None"

\* A key the dict does not hold.
Missing == "Missing"

(***************************************************************************)
(* Generic helpers.                                                        *)
(***************************************************************************)
SeqsUpTo(S, n) == UNION {[1..k -> S] : k \in 0..n}

Min(a, b) == IF a <= b THEN a ELSE b

Prefix(s, n) == SubSeq(s, 1, Min(n, Len(s)))

\* The rest of the list taken one element too late.
SuffixSkippingOne(s, n) == SubSeq(s, Min(n, Len(s)) + 2, Len(s))

Suffix(s, n) == SubSeq(s, Min(n, Len(s)) + 1, Len(s))

Range(s) == {s[i] : i \in DOMAIN s}

\* Where the slice s[:n] of a list of length len ends (and s[n:] starts): a
\* negative n counts from the end of the list.
SliceEnd(n, len) ==
    IF n < 0 THEN (IF len + n > 0 THEN len + n ELSE 0) ELSE Min(n, len)

Truthy(v) == v # None /\ v # "" /\ v # Missing

(***************************************************************************)
(* The items the search provider can return.  PaperA and PaperB share a    *)
(* paperId and differ in every other field; Untitled has no title.         *)
(***************************************************************************)
PaperA == [paperId |-> "P1", title |-> "T1", abstract |-> "A1", year |-> "2020",
           url |-> "U1", openAccessPdf |-> "F1"]
PaperB == [paperId |-> "P1", title |-> "T1b", abstract |-> None, year |-> None,
           url |-> None, openAccessPdf |-> None]
PaperC == [paperId |-> "P2", title |-> "T2", abstract |-> "A2", year |-> "2021",
           url |-> "U2", openAccessPdf |-> None]
Untitled == [paperId |-> "P3", title |-> "", abstract |-> "A3", year |-> None,
             url |-> "U3", openAccessPdf |-> None]

RawItems == {PaperA, PaperB, PaperC, Untitled}

\* The ways one GET to the search provider fails: a status other than 200, a
\* timeout, a connection error, a 200 body that is not JSON, a JSON body of
\* another shape than {"data": [paper, ...]}.
FailureKinds == {"non200", "timeout", "error", "not_json", "bad_shape"}

\* What one GET to the search provider can come to.
UpstreamOutcomes(n) ==
    {[kind |-> k, data |-> <<>>] : k \in FailureKinds}
    \cup {[kind |-> "ok", data |-> d] : d \in SeqsUpTo(RawItems, n)}

HasTitle(p) == p.title # ""

\* search_papers_internal: a list of Paper, empty on every failure.
search_papers_internal(outcome) ==
    IF outcome.kind = "ok" THEN SelectSeq(outcome.data, HasTitle) ELSE <<>>

\* A search whose failures other than a bad status are raised to the caller.
RaisesOnFailure(outcome) == outcome.kind \notin {"ok", "non200"}

\* except httpx.TimeoutException / except Exception around the whole request:
\* no outcome leaves search_papers_internal as an exception.
SearchRaises(outcome) == FALSE

(***************************************************************************)
(* The merge of the gathered results (multi_search and stage 2 of          *)
(* start_deep_research hold the same two loops).                           *)
(***************************************************************************)
RECURSIVE AppendUnseen(_, _)
AppendUnseen(acc, result) ==
    IF result = <<>> THEN acc
    ELSE LET paper == Head(result)
             next == IF paper.paperId \notin acc.seen_ids
                     THEN [all_papers |-> Append(acc.all_papers, paper),
                           seen_ids |-> acc.seen_ids \cup {paper.paperId}]
                     ELSE acc
         IN AppendUnseen(next, Tail(result))

RECURSIVE MergeFrom(_, _, _)
MergeFrom(acc, results, i) ==
    IF i > Len(results) THEN acc
    ELSE IF results[i].raised THEN MergeFrom(acc, results, i + 1)
    ELSE MergeFrom(AppendUnseen(acc, results[i].papers), results, i + 1)

\* The merge as a loop over the tasks in the order they completed.
RECURSIVE MergeInOrder(_, _, _)
MergeInOrder(acc, results, order) ==
    IF order = <<>> THEN acc
    ELSE IF results[Head(order)].raised THEN MergeInOrder(acc, results, Tail(order))
    ELSE MergeInOrder(AppendUnseen(acc, results[Head(order)].papers), results, Tail(order))

MergeDedupByCompletion(results) ==
    MergeInOrder([all_papers |-> <<>>, seen_ids |-> {}], results, completed)

\* The merge that keeps every paper of every result.
RECURSIVE ConcatFrom(_, _)
ConcatFrom(results, i) ==
    IF i > Len(results) THEN <<>>
    ELSE results[i].papers \o ConcatFrom(results, i + 1)

MergeNoDedup(results) ==
    [all_papers |-> ConcatFrom(results, 1),
     seen_ids |-> {p.paperId : p \in Range(ConcatFrom(results, 1))}]

\* The merge that gives up at the first sub-query that contributed nothing.
RECURSIVE MergeUntilEmptyFrom(_, _, _)
MergeUntilEmptyFrom(acc, results, i) ==
    IF i > Len(results) THEN acc
    ELSE IF results[i].raised \/ results[i].papers = <<>> THEN acc
    ELSE MergeUntilEmptyFrom(AppendUnseen(acc, results[i].papers), results, i + 1)

MergeUntilEmpty(results) ==
    MergeUntilEmptyFrom([all_papers |-> <<>>, seen_ids |-> {}], results, 1)

\* for i, result in enumerate(search_results): ... , from empty accumulators
MergeDedup(results) ==
    MergeFrom([all_papers |-> <<>>, seen_ids |-> {}], results, 1)

\* The results taken as soon as one task is done (the join of as_completed).
AnyDone == search_results = <<>> \/ \E i \in DOMAIN search_results : search_results[i].done

\* asyncio.gather(*search_tasks, return_exceptions=True): the tasks' results
\* in submission order, once every task is done.
AllDone == \A i \in DOMAIN search_results : search_results[i].done

Gathered == [i \in DOMAIN search_results |->
                [raised |-> search_results[i].raised,
                 papers |-> search_results[i].papers]]

\* failed is history: the task's GET did not come to a 200 with a paper list.
PendingTask == [done |-> FALSE, raised |-> FALSE, failed |-> FALSE, papers |-> <<>>]

(***************************************************************************)
(* The Decomposer (services/decomposer.py).  Queries are numbered: 0 is    *)
(* the request's keywords, 1, 2, ... are the phrases the LLM returns.      *)
(***************************************************************************)
BaseKeywords == 0

QueryList(n) == [i \in 1..n |-> i]

\* The LLM call failed, its reply is not JSON, the JSON has no sub_queries
\* key, or what is under the key is not a list.
DecomposerFailures == {"llm_fail", "bad_json", "no_key", "not_list"}

\* What the LLM call of the Decomposer can come to.
DecomposerOutcomes ==
    {[kind |-> k, sub_queries |-> <<>>] : k \in DecomposerFailures}
    \cup {[kind |-> "list", sub_queries |-> QueryList(n)] : n \in 0..MaxSubQueries}

\* The Decomposer without the test for an empty list.
TrustsLlmList(key, base_keywords, outcome) ==
    IF ~key
    THEN [reasoning |-> "API key not configured", sub_queries |-> <<base_keywords>>]
    ELSE IF outcome.kind = "bad_json"
    THEN [reasoning |-> "JSON parse error", sub_queries |-> <<base_keywords>>]
    ELSE IF outcome.kind \in {"llm_fail", "no_key", "not_list"}
    THEN [reasoning |-> "Error occurred", sub_queries |-> <<base_keywords>>]
    ELSE [reasoning |-> "llm", sub_queries |-> outcome.sub_queries]

generate_sub_queries(key, base_keywords, outcome) ==
    IF ~key
    THEN [reasoning |-> "API key not configured", sub_queries |-> <<base_keywords>>]
    ELSE IF outcome.kind = "bad_json"
    THEN [reasoning |-> "JSON parse error", sub_queries |-> <<base_keywords>>]
    ELSE IF outcome.kind \in {"llm_fail", "no_key", "not_list"}
    THEN [reasoning |-> "Error occurred", sub_queries |-> <<base_keywords>>]
    ELSE [reasoning |-> "llm",
          sub_queries |-> IF Len(outcome.sub_queries) = 0
                          THEN <<base_keywords>> ELSE outcome.sub_queries]

(***************************************************************************)
(* The Content Fetcher (services/content_fetcher.py).                      *)
(***************************************************************************)
NoText == [id |-> "", len |-> 0, keep |-> 0, lead |-> 0, marker |-> FALSE]

\* A string held in a "content" field that the reader did not supply: the
\* paper's abstract, or one of the literals of the code.
Plain(s) == [str |-> s]

\* A text is its length len, the length keep that is left of it once the
\* skipped sections are removed and runs of newlines collapsed, the number
\* lead of whitespace characters it starts with (part of keep), and whether
\* it ends with the truncation marker.
ReaderTexts ==
    {[id |-> "tiny", len |-> 150, keep |-> 150, lead |-> 0, marker |-> FALSE],
     [id |-> "short", len |-> 1500, keep |-> 800, lead |-> 2, marker |-> FALSE],
     [id |-> "long", len |-> 3000, keep |-> 3000, lead |-> 0, marker |-> FALSE],
     [id |-> "hugeRefs", len |-> 16000, keep |-> 1000, lead |-> 0, marker |-> FALSE],
     [id |-> "huge", len |-> 20000, keep |-> 18000, lead |-> 3, marker |-> FALSE]}

\* What one GET to the reader service can come to.
ReaderOutcomes ==
    {[kind |-> k, text |-> NoText] : k \in {"non200", "timeout", "error"}}
    \cup {[kind |-> "200", text |-> t] : t \in ReaderTexts}

\* A reader that takes every 200 for a success, however short the body.
JinaTrustsStatus(outcome) ==
    IF outcome.kind = "200"
    THEN [success |-> TRUE, content |-> outcome.text]
    ELSE [success |-> FALSE, content |-> NoText]

fetch_via_jina(outcome) ==
    IF outcome.kind = "200" /\ outcome.text.len > JinaMinLen
    THEN [success |-> TRUE, content |-> outcome.text]
    ELSE [success |-> FALSE, content |-> NoText]

\* The skipped sections are removed and the text is cut whatever its length.
AlwaysProcess(content) ==
    IF content.keep > MAX_CONTENT_LENGTH
    THEN [id |-> content.id,
          len |-> MAX_CONTENT_LENGTH + TruncationMarkerLen - content.lead,
          keep |-> MAX_CONTENT_LENGTH + TruncationMarkerLen - content.lead,
          lead |-> 0, marker |-> TRUE]
    ELSE [id |-> content.id, len |-> content.keep - content.lead,
          keep |-> content.keep - content.lead, lead |-> 0, marker |-> FALSE]

\* The skipped sections are removed and nothing is cut.
NoHardCut(content) ==
    IF content.len <= MAX_CONTENT_LENGTH THEN content
    ELSE [id |-> content.id, len |-> content.keep - content.lead,
          keep |-> content.keep - content.lead, lead |-> 0, marker |-> FALSE]

\* _smart_truncate: a text within the budget is returned as it is; a longer
\* one loses its skipped sections, is cut to the budget and given the marker
\* if it is still over it, and is stripped of the whitespace around it.
smart_truncate(content) ==
    IF content.len <= MAX_CONTENT_LENGTH THEN content
    ELSE IF content.keep > MAX_CONTENT_LENGTH
    THEN [id |-> content.id,
          len |-> MAX_CONTENT_LENGTH + TruncationMarkerLen - content.lead,
          keep |-> MAX_CONTENT_LENGTH + TruncationMarkerLen - content.lead,
          lead |-> 0, marker |-> TRUE]
    ELSE [id |-> content.id, len |-> content.keep - content.lead,
          keep |-> content.keep - content.lead, lead |-> 0, marker |-> FALSE]

\* The landing page tried before the PDF.
PageBeforePdf(paper_url, pdf_url, abstract, reader) ==
    IF Truthy(paper_url) /\ fetch_via_jina(reader.page).success
    THEN [content_type |-> "partial",
          content |-> smart_truncate(fetch_via_jina(reader.page).content),
          source |-> "jina_page"]
    ELSE IF Truthy(pdf_url) /\ fetch_via_jina(reader.pdf).success
    THEN LET processed == smart_truncate(fetch_via_jina(reader.pdf).content)
         IN [content_type |-> IF processed.len > FullTextMinLen
                              THEN "full_text" ELSE "partial",
             content |-> processed, source |-> "jina_pdf"]
    ELSE [content_type |-> "abstract",
          content |-> Plain(IF Truthy(abstract) THEN abstract
                            ELSE "No content available."),
          source |-> "abstract"]

\* reader: [pdf, page], the outcomes of the two GETs should they be issued.
fetch_paper_content(paper_url, pdf_url, abstract, reader) ==
    IF Truthy(pdf_url) /\ fetch_via_jina(reader.pdf).success
    THEN LET processed == smart_truncate(fetch_via_jina(reader.pdf).content)
         IN [content_type |-> IF processed.len > FullTextMinLen
                              THEN "full_text" ELSE "partial",
             content |-> processed, source |-> "jina_pdf"]
    ELSE IF Truthy(paper_url) /\ fetch_via_jina(reader.page).success
    THEN [content_type |-> "partial",
          content |-> smart_truncate(fetch_via_jina(reader.page).content),
          source |-> "jina_page"]
    ELSE [content_type |-> "abstract",
          content |-> Plain(IF Truthy(abstract) THEN abstract
                            ELSE "No content available."),
          source |-> "abstract"]

\* {**paper, "full_content": full_content}
WithContent(paper, full_content) ==
    [paperId |-> paper.paperId, title |-> paper.title, abstract |-> paper.abstract,
     year |-> paper.year, url |-> paper.url, pdfUrl |-> paper.pdfUrl,
     full_content |-> full_content]

\* "full_content" built from the paper's own abstract field.
AbstractOnly(paper) ==
    [content_type |-> "abstract",
     content |-> Plain(IF paper.abstract = Missing THEN "No abstract available."
                       ELSE paper.abstract),
     source |-> "abstract"]

\* The links the batch sends to the reader: those of its first max_papers.
BatchLinks(papers, max_papers) ==
    {l \in {papers[i].pdfUrl : i \in 1..SliceEnd(max_papers, Len(papers))}
            \cup {papers[i].url : i \in 1..SliceEnd(max_papers, Len(papers))} : Truthy(l)}

\* The outcome standing for a GET that is not issued; nothing reads it.
NoGet == [kind |-> "error", text |-> NoText]

\* The outcomes of the GETs of one batch, per paper.  The reader answers a
\* link the same way throughout one batch.
ReaderChoices(papers, max_papers) ==
    {[i \in 1..Len(papers) |->
         [pdf |-> IF papers[i].pdfUrl \in DOMAIN answer
                  THEN answer[papers[i].pdfUrl] ELSE NoGet,
          page |-> IF papers[i].url \in DOMAIN answer
                   THEN answer[papers[i].url] ELSE NoGet]]
     : answer \in [BatchLinks(papers, max_papers) -> ReaderOutcomes]}

\* paper.get(key, default)
Get(value, default) == IF value = Missing THEN default ELSE value

\* One paper of the first max_papers: fetch_paper_content on its links.
FetchedPaper(paper, reader) ==
    WithContent(paper, fetch_paper_content(Get(paper.url, ""), Get(paper.pdfUrl, None),
                                           Get(paper.abstract, None), reader))

\* The batch fetching every paper, whatever max_papers.
FetchEveryPaper(papers, max_papers, readers) ==
    [i \in 1..Len(papers) |-> FetchedPaper(papers[i], readers[i])]

fetch_multiple_papers_content(papers, max_papers, readers) ==
    [i \in 1..Len(papers) |->
        IF i <= SliceEnd(max_papers, Len(papers))
        THEN FetchedPaper(papers[i], readers[i])
        ELSE WithContent(papers[i], AbstractOnly(papers[i]))]

(***************************************************************************)
(* The Insight Extractor (analyze_papers).                                 *)
(***************************************************************************)
InsightItems == {[insight |-> "i1", source |-> "T1 2020", paperId |-> "P1"],
                 [insight |-> "i2", source |-> "made up", paperId |-> "PX"]}

ExtractorOutcomes ==
    {[kind |-> k, insights |-> <<>>] : k \in {"llm_fail", "bad_json", "bad_shape"}}
    \cup {[kind |-> "ok", insights |-> l] : l \in SeqsUpTo(InsightItems, MaxInsights)}

NoError == [raised |-> FALSE, status |-> 0, detail |-> ""]

HTTPException(status, detail) == [raised |-> TRUE, status |-> status, detail |-> detail]

\* analyze_papers without the key test: the outcome of the LLM call decides.
AnalyzeWithoutKeyTest(key, papers, outcome) ==
    IF outcome.kind = "bad_json"
    THEN [error |-> HTTPException(500, "Failed to parse AI response"),
          prompt_papers |-> Prefix(papers, AnalysisLimit), insights |-> <<>>]
    ELSE IF outcome.kind \in {"llm_fail", "bad_shape"}
    THEN [error |-> HTTPException(500, "Error analyzing papers"),
          prompt_papers |-> Prefix(papers, AnalysisLimit), insights |-> <<>>]
    ELSE [error |-> NoError, prompt_papers |-> Prefix(papers, AnalysisLimit),
          insights |-> outcome.insights]

analyze_papers(key, papers, outcome) ==
    IF ~key
    THEN [error |-> HTTPException(500, "GROQ_API_KEY not configured"),
          prompt_papers |-> <<>>, insights |-> <<>>]
    ELSE IF outcome.kind = "bad_json"
    THEN [error |-> HTTPException(500, "Failed to parse AI response"),
          prompt_papers |-> Prefix(papers, AnalysisLimit), insights |-> <<>>]
    ELSE IF outcome.kind \in {"llm_fail", "bad_shape"}
    THEN [error |-> HTTPException(500, "Error analyzing papers"),
          prompt_papers |-> Prefix(papers, AnalysisLimit), insights |-> <<>>]
    ELSE [error |-> NoError, prompt_papers |-> Prefix(papers, AnalysisLimit),
          insights |-> outcome.insights]

(***************************************************************************)
(* The Narrator and the Editor (services/cowriter.py).                     *)
(***************************************************************************)
NarratorOutcomes == {"llm_fail", "ok"}

\* A Narrator whose LLM call stands outside the try block.
NarratorRaisesOnFailure(key, outcome) == key /\ outcome = "llm_fail"

\* The key test returns a string and the LLM call sits in try / except
\* Exception, which returns a string: nothing is raised to the caller.
NarratorRaises(key, outcome) == FALSE

generate_research_report(key, outcome) ==
    IF ~key THEN "Error: API key not configured"
    ELSE IF outcome = "ok" THEN "report"
    ELSE "Error generating research report"

NarrativeFields == {"hook", "introduction", "deep_dive", "conclusion"}

\* The "narrative" objects the Editor's LLM can return: a field is a string
\* ("text") or JSON null ("null"), and fields can be missing.
NarrativeDicts ==
    {[f \in NarrativeFields |-> "text"],
     [f \in NarrativeFields |-> IF f = "hook" THEN "null" ELSE "text"],
     [f \in NarrativeFields \ {"conclusion"} |-> "text"],
     [f \in {"hook"} |-> "text"],
     [f \in {} |-> "text"]}

\* The JSON object of the Editor's LLM: whether it has an "error" key, and
\* its "narrative" (absent, not an object, or an object).
EditorOutcomes ==
    {[kind |-> k, has_error |-> FALSE, narrative_kind |-> "absent", narrative |-> <<>>]
        : k \in {"llm_fail", "bad_json"}}
    \cup {[kind |-> "json", has_error |-> e, narrative_kind |-> "dict", narrative |-> n]
        : e \in BOOLEAN, n \in NarrativeDicts}
    \cup {[kind |-> "json", has_error |-> FALSE, narrative_kind |-> nk, narrative |-> <<>>]
        : nk \in {"absent", "not_dict"}}

EditorError(msg) == [error |-> TRUE, detail |-> msg, has_narrative |-> FALSE,
                     narrative |-> <<>>]

\* The Editor has not returned.
NoScript == [error |-> FALSE, detail |-> "not called", has_narrative |-> FALSE,
             narrative |-> <<>>]

generate_final_script(key, outcome) ==
    IF ~key THEN EditorError("API key not configured")
    ELSE IF outcome.kind = "bad_json" THEN EditorError("JSON parse error")
    ELSE IF outcome.kind = "llm_fail" THEN EditorError("llm")
    ELSE IF outcome.narrative_kind = "not_dict" THEN EditorError("no values")
    ELSE [error |-> outcome.has_error,
          detail |-> IF outcome.has_error THEN "llm error key" ELSE "",
          has_narrative |-> outcome.narrative_kind = "dict",
          narrative |-> outcome.narrative]

\* narrative_data.get(field, "")
FieldOrEmpty(narrative_data, f) ==
    IF f \in DOMAIN narrative_data THEN narrative_data[f] ELSE ""

\* The LLM's narrative object passed through as it came.
NarrativeUnchecked(narrative_data) == [valid |-> TRUE, fields |-> narrative_data]

\* NarrativeStructure(hook=..., introduction=..., deep_dive=..., conclusion=...):
\* all four fields, or a validation error when a value is not a string.
NarrativeStructure(narrative_data) ==
    [valid |-> \A f \in NarrativeFields : FieldOrEmpty(narrative_data, f) # "null",
     fields |-> [f \in NarrativeFields |-> FieldOrEmpty(narrative_data, f)]]

(***************************************************************************)
(* Responses.                                                              *)
(***************************************************************************)
NoBody == [present |-> FALSE]

NoResponse == [kind |-> "none", status |-> 0, detail |-> "", body |-> NoBody]

ErrorResponse(error) ==
    [kind |-> "error", status |-> error.status, detail |-> error.detail, body |-> NoBody]

OkResponse(body) == [kind |-> "result", status |-> 200, detail |-> "", body |-> body]

\* SearchPaperResult(...) built from a Paper.
SearchPaperResult(p) ==
    [paperId |-> p.paperId, title |-> p.title, abstract |-> p.abstract,
     year |-> p.year, url |-> p.url, pdfUrl |-> p.openAccessPdf]

\* The dict built from a Paper for the later stages.
PaperDict(p) ==
    [paperId |-> p.paperId, title |-> p.title, abstract |-> p.abstract,
     year |-> p.year, url |-> p.url, pdfUrl |-> p.openAccessPdf]

\* Mode Cepat: paper["full_content"] built from the paper's abstract.
FastModeContent(paper) ==
    WithContent(paper, [content_type |-> "abstract", content |-> Plain(paper.abstract),
                        source |-> "abstract"])

\* PaperInput(...) for the Insight Extractor.
PaperInput(p) ==
    [paperId |-> p.paperId, title |-> p.title,
     abstract |-> IF Truthy(p.abstract) THEN p.abstract ELSE "",
     year |-> p.year, url |-> p.url]

HasAbstract(p) == Truthy(p.abstract)

\* The first ten papers handed on whether they have an abstract or not.
AnalyzeFirstTen(papers) ==
    LET first == Prefix(papers, AnalysisLimit)
    IN [i \in 1..Len(first) |-> PaperInput(first[i])]

papers_for_analysis(papers) ==
    LET kept == SelectSeq(Prefix(papers, AnalysisLimit), HasAbstract)
    IN [i \in 1..Len(kept) |-> PaperInput(kept[i])]

\* A reference that takes the default title in place of the paper's.
ReferenceUntitled(p) == [title |-> "Unknown", year |-> p.year, url |-> p.url]

\* Reference(...) built from a paper dict.
Reference(p) == [title |-> p.title, year |-> p.year, url |-> p.url]

\* One reference for every paper of the run, beyond the first ten too.
ReferencesOfAll(papers) == [i \in 1..Len(papers) |-> Reference(papers[i])]

references_response(papers) ==
    LET first == Prefix(papers, AnalysisLimit)
    IN [i \in 1..Len(first) |-> Reference(first[i])]

CountFullText(papers) ==
    Cardinality({i \in DOMAIN papers : papers[i].full_content.content_type = "full_text"})

\* The run going on whatever the merge found.
NeverNoPapers(papers) == FALSE

\* if len(all_papers) == 0: is the deduplicated list empty?
NoPapersFound(papers) == Len(papers) = 0

\* Stage 3 calling the Content Fetcher whatever the mode.
AlwaysFetch(flag) == TRUE

\* if request.enable_full_text: does stage 3 call the Content Fetcher?
FetchEnabled(flag) == flag

\* The stages with the Narrator and the Editor in each other's place.
NextStageSwapped(stage, flag) ==
    CASE stage = "DECOMPOSE" -> "SEARCH"
      [] stage = "SEARCH" -> "DEDUPLICATE"
      [] stage = "DEDUPLICATE" ->
            IF FetchEnabled(flag) THEN "FETCH_CONTENT" ELSE "EXTRACT_INSIGHTS"
      [] stage = "FETCH_CONTENT" -> "EXTRACT_INSIGHTS"
      [] stage = "EXTRACT_INSIGHTS" -> "EDIT"
      [] stage = "EDIT" -> "NARRATE"
      [] stage = "NARRATE" -> "COMPLETE"

\* The stages with the Insight Extractor tried again after it returned.
NextStageRetrying(stage, flag) ==
    CASE stage = "DECOMPOSE" -> "SEARCH"
      [] stage = "SEARCH" -> "DEDUPLICATE"
      [] stage = "DEDUPLICATE" ->
            IF FetchEnabled(flag) THEN "FETCH_CONTENT" ELSE "EXTRACT_INSIGHTS"
      [] stage = "FETCH_CONTENT" -> "EXTRACT_INSIGHTS"
      [] stage = "EXTRACT_INSIGHTS" -> "EXTRACT_INSIGHTS"
      [] stage = "NARRATE" -> "EDIT"
      [] stage = "EDIT" -> "COMPLETE"

\* The stage whose code follows that of `stage` in start_deep_research.
NextStage(stage, flag) ==
    CASE stage = "DECOMPOSE" -> "SEARCH"
      [] stage = "SEARCH" -> "DEDUPLICATE"
      [] stage = "DEDUPLICATE" ->
            IF FetchEnabled(flag) THEN "FETCH_CONTENT" ELSE "EXTRACT_INSIGHTS"
      [] stage = "FETCH_CONTENT" -> "EXTRACT_INSIGHTS"
      [] stage = "EXTRACT_INSIGHTS" -> "NARRATE"
      [] stage = "NARRATE" -> "EDIT"
      [] stage = "EDIT" -> "COMPLETE"

\* The ids of a list of papers.
PaperIds(papers) == [i \in DOMAIN papers |-> papers[i].paperId]

\* if not GROQ_API_KEY: return / raise stands before the LLM call of every
\* stage: the call is reached only with a key.
LlmReached(key) == key

\* The LLM calls one stage makes.
LlmCalls(stage, key) == IF LlmReached(key) THEN {stage} ELSE {}

(***************************************************************************)
(* Stage 1 of start_deep_research: the Decomposer returns, the search      *)
(* coroutines are created and gather starts them all.                      *)
(***************************************************************************)
DecomposeStage ==
    /\ endpoint = "deep_research" /\ pc = "DECOMPOSE"
    /\ \E outcome \in DecomposerOutcomes :
          LET decomposition == generate_sub_queries(GROQ_API_KEY, BaseKeywords, outcome)
          IN /\ sub_queries' = decomposition.sub_queries
             /\ reasoning' = decomposition.reasoning
             /\ search_results' = [i \in 1..Len(decomposition.sub_queries) |-> PendingTask]
    /\ pc' = NextStage(pc, enable_full_text)
    /\ stages' = Append(stages, NextStage(pc, enable_full_text))
    /\ calls' = calls \cup {"decomposer"}
    /\ handoff' = [handoff EXCEPT !.llm = @ \cup LlmCalls("decomposer", GROQ_API_KEY)]
    /\ UNCHANGED <<endpoint, enable_full_text, GROQ_API_KEY, completed, all_papers,
                   seen_ids, papers_with_content, analysis_input, insights,
                   research_report, full_text_count, response, fb,
                   script_result, batch, dec, direct>>

\* multi_search: the search coroutines are created from the request's
\* sub-queries and gather starts them all.
MultiSearchStart ==
    /\ endpoint = "multi_search" /\ pc = "RECEIVED"
    /\ search_results' = [i \in 1..Len(sub_queries) |-> PendingTask]
    /\ pc' = "SEARCH"
    /\ stages' = Append(stages, "SEARCH")
    /\ UNCHANGED <<endpoint, enable_full_text, GROQ_API_KEY, calls, sub_queries,
                   completed, all_papers, seen_ids, papers_with_content,
                   analysis_input, insights, research_report, full_text_count,
                   response, fb,
                   reasoning, script_result, batch, dec, handoff, direct>>

\* One search task runs to its end; the tasks end in any order.
SearchTaskCompletes(i) ==
    /\ pc = "SEARCH"
    /\ i \in DOMAIN search_results
    /\ ~search_results[i].done
    /\ \E outcome \in UpstreamOutcomes(MaxResults) :
          search_results' = [search_results EXCEPT ![i] =
              [done |-> TRUE, raised |-> SearchRaises(outcome),
               failed |-> outcome.kind # "ok",
               papers |-> IF SearchRaises(outcome) THEN <<>>
                          ELSE search_papers_internal(outcome)]]
    /\ completed' = Append(completed, i)
    /\ calls' = calls \cup {"search"}
    /\ UNCHANGED <<endpoint, enable_full_text, GROQ_API_KEY, pc, stages, sub_queries,
                   all_papers, seen_ids, papers_with_content, analysis_input,
                   insights, research_report, full_text_count, response, fb,
                   reasoning, script_result, batch, dec, handoff, direct>>

\* gather returns once every task is done; the results are merged.
GatherAndMerge ==
    /\ pc = "SEARCH"
    /\ AllDone
    /\ LET merged == MergeDedup(Gathered)
       IN /\ all_papers' = merged.all_papers
          /\ seen_ids' = merged.seen_ids
    /\ pc' = NextStage(pc, enable_full_text)
    /\ stages' = Append(stages, NextStage(pc, enable_full_text))
    /\ UNCHANGED <<endpoint, enable_full_text, GROQ_API_KEY, calls, sub_queries,
                   search_results, completed, papers_with_content, analysis_input,
                   insights, research_report, full_text_count, response, fb,
                   reasoning, script_result, batch, dec, handoff, direct>>

\* multi_search: the response is built from the merged list.
MultiSearchRespond ==
    /\ endpoint = "multi_search" /\ pc = "DEDUPLICATE"
    /\ response' = OkResponse(
          [present |-> TRUE,
           papers |-> [i \in 1..Len(all_papers) |-> SearchPaperResult(all_papers[i])],
           total_papers |-> Len(all_papers),
           queries_searched |-> Len(sub_queries)])
    /\ pc' = "COMPLETE"
    /\ stages' = Append(stages, "COMPLETE")
    /\ search_results' = <<>>
    /\ completed' = <<>>
    /\ UNCHANGED <<endpoint, enable_full_text, GROQ_API_KEY, calls, sub_queries,
                   all_papers, seen_ids, papers_with_content, analysis_input,
                   insights, research_report, full_text_count, fb,
                   reasoning, script_result, batch, dec, handoff, direct>>

\* start_deep_research after the merge: the empty check, the conversion to
\* dicts, and the choice between the Content Fetcher and the abstracts.  The
\* gathered results are not read again and are dropped.
CheckPapers ==
    /\ endpoint = "deep_research" /\ pc = "DEDUPLICATE"
    /\ search_results' = <<>>
    /\ completed' = <<>>
    /\ IF NoPapersFound(all_papers)
       THEN /\ response' = ErrorResponse(
                   HTTPException(404, "No papers found across all search queries"))
            /\ pc' = "FAILED"
            /\ UNCHANGED <<stages, papers_with_content, batch, dec, handoff, direct>>
       ELSE LET papers_dict == [i \in 1..Len(all_papers) |-> PaperDict(all_papers[i])]
            IN /\ UNCHANGED response
               /\ papers_with_content' =
                      IF FetchEnabled(enable_full_text) THEN papers_dict
                      ELSE [i \in 1..Len(papers_dict) |-> FastModeContent(papers_dict[i])]
               /\ pc' = NextStage(pc, enable_full_text)
               /\ stages' = Append(stages, NextStage(pc, enable_full_text))
    /\ UNCHANGED <<endpoint, enable_full_text, GROQ_API_KEY, calls, sub_queries,
                   all_papers, seen_ids, analysis_input, insights, research_report,
                   full_text_count, fb,
                   reasoning, script_result, batch, dec, handoff, direct>>

\* Stage 3: fetch_multiple_papers_content returns.
FetchContentStage ==
    /\ pc = "FETCH_CONTENT"
    /\ \E readers \in ReaderChoices(papers_with_content, FetchMaxPapers) :
          LET fetched == fetch_multiple_papers_content(papers_with_content,
                                                       FetchMaxPapers, readers)
          IN /\ papers_with_content' = fetched
             /\ full_text_count' = CountFullText(fetched)
    /\ calls' = calls \cup {"fetcher"}
    /\ pc' = NextStage(pc, enable_full_text)
    /\ stages' = Append(stages, NextStage(pc, enable_full_text))
    /\ UNCHANGED <<endpoint, enable_full_text, GROQ_API_KEY, sub_queries,
                   search_results, completed, all_papers, seen_ids, analysis_input,
                   insights, research_report, response, fb,
                   reasoning, script_result, batch, dec, handoff, direct>>

\* Stage 4: analyze_papers returns or raises; an HTTPException is re-raised.
ExtractInsightsStage ==
    /\ pc = "EXTRACT_INSIGHTS"
    /\ analysis_input' = papers_for_analysis(papers_with_content)
    /\ calls' = calls \cup {"extractor"}
    /\ \E outcome \in ExtractorOutcomes :
          LET analyze_response ==
                  analyze_papers(GROQ_API_KEY, papers_for_analysis(papers_with_content),
                                 outcome)
          IN IF analyze_response.error.raised
             THEN /\ response' = ErrorResponse(analyze_response.error)
                  /\ pc' = "FAILED"
                  /\ UNCHANGED <<stages, insights, batch, dec, direct>>
             ELSE /\ insights' = analyze_response.insights
                  /\ pc' = NextStage(pc, enable_full_text)
                  /\ stages' = Append(stages, NextStage(pc, enable_full_text))
                  /\ UNCHANGED response
    /\ handoff' = [handoff EXCEPT !.llm = @ \cup LlmCalls("extractor", GROQ_API_KEY)]
    /\ UNCHANGED <<endpoint, enable_full_text, GROQ_API_KEY, sub_queries,
                   search_results, completed, all_papers, seen_ids,
                   papers_with_content, research_report, full_text_count, fb,
                   reasoning, script_result, batch, dec, direct>>

\* Stage 5: generate_research_report returns a string.
NarrateStage ==
    /\ pc = "NARRATE"
    /\ \E outcome \in NarratorOutcomes :
          IF NarratorRaises(GROQ_API_KEY, outcome)
          THEN /\ response' = ErrorResponse(HTTPException(500, "Deep research failed"))
               /\ pc' = "FAILED"
               /\ UNCHANGED <<stages, research_report>>
          ELSE /\ research_report' = generate_research_report(GROQ_API_KEY, outcome)
               /\ pc' = NextStage(pc, enable_full_text)
               /\ stages' = Append(stages, NextStage(pc, enable_full_text))
               /\ UNCHANGED response
    /\ calls' = calls \cup {"narrator"}
    /\ handoff' = [handoff EXCEPT
                       !.llm = @ \cup LlmCalls("narrator", GROQ_API_KEY),
                       !.narrator_called = TRUE,
                       !.narrator_papers = PaperIds(Prefix(papers_with_content,
                                                           AnalysisLimit))]
    /\ UNCHANGED <<endpoint, enable_full_text, GROQ_API_KEY, sub_queries,
                   search_results, completed, all_papers, seen_ids,
                   papers_with_content, analysis_input, insights, full_text_count,
                   fb, reasoning, script_result, batch, dec, direct>>

\* The Editor's error value ignored.
EditorNeverFailed(result) == FALSE

\* if "error" in script_result
EditorFailed(result) == result.error

\* The DeepResearchResult of a run that got through every stage.
DeepResearchResult(narrative) ==
    [present |-> TRUE,
     sub_queries |-> sub_queries,
     papers |-> [i \in 1..Len(papers_with_content) |->
                    [paperId |-> papers_with_content[i].paperId,
                     title |-> papers_with_content[i].title,
                     abstract |-> papers_with_content[i].abstract,
                     year |-> papers_with_content[i].year,
                     url |-> papers_with_content[i].url,
                     pdfUrl |-> papers_with_content[i].pdfUrl]],
     total_papers |-> Len(papers_with_content),
     papers_with_full_text |-> full_text_count,
     research_report |-> research_report,
     content_blueprint |->
         [key_insights |-> insights,
          narrative |-> narrative,
          references |-> references_response(papers_with_content)]]

\* Stage 6 and the final result: generate_final_script returns; an error
\* value raises "Editor failed", a narrative that fails validation is caught
\* by the outer handler, otherwise the result is built and returned.
EditStage ==
    /\ pc = "EDIT"
    /\ calls' = calls \cup {"editor"}
    /\ \E outcome \in EditorOutcomes :
          LET returned == generate_final_script(GROQ_API_KEY, outcome)
              narrative_data == IF returned.has_narrative
                                THEN returned.narrative ELSE <<>>
              narrative == NarrativeStructure(narrative_data)
          IN /\ script_result' = returned
             /\ IF EditorFailed(returned)
                THEN /\ response' = ErrorResponse(HTTPException(500, "Editor failed"))
                     /\ pc' = "FAILED"
                     /\ UNCHANGED stages
                ELSE IF ~narrative.valid
                THEN /\ response' = ErrorResponse(
                                        HTTPException(500, "Deep research failed"))
                     /\ pc' = "FAILED"
                     /\ UNCHANGED stages
                ELSE /\ response' = OkResponse(DeepResearchResult(narrative.fields))
                     /\ pc' = NextStage(pc, enable_full_text)
                     /\ stages' = Append(stages, NextStage(pc, enable_full_text))
    /\ handoff' = [handoff EXCEPT
                       !.llm = @ \cup LlmCalls("editor", GROQ_API_KEY),
                       !.editor_called = TRUE,
                       !.editor_report = research_report]
    /\ UNCHANGED <<endpoint, enable_full_text, GROQ_API_KEY, sub_queries,
                   search_results, completed, all_papers, seen_ids,
                   papers_with_content, analysis_input, insights, research_report,
                   full_text_count, fb,
                   reasoning, batch, dec, direct>>

FbIdle == [pc |-> "idle"]

BatchIdle == [pc |-> "idle"]

DecIdle == [pc |-> "idle"]

DirectIdle == [pc |-> "idle"]

\* Nothing handed over yet: no LLM call made, the Narrator and the Editor
\* not called.
NoHandoff == [llm |-> {}, narrator_papers |-> <<>>, narrator_called |-> FALSE,
              editor_report |-> "", editor_called |-> FALSE]

InitDeepResearch ==
    /\ endpoint = "deep_research"
    /\ enable_full_text \in BOOLEAN
    /\ GROQ_API_KEY \in BOOLEAN
    /\ pc = "DECOMPOSE"
    /\ stages = <<"DECOMPOSE">>
    /\ sub_queries = <<>>

InitMultiSearch ==
    /\ endpoint = "multi_search"
    /\ enable_full_text = FALSE
    /\ GROQ_API_KEY = TRUE
    /\ pc = "RECEIVED"
    /\ stages = <<>>
    /\ sub_queries \in {QueryList(n) : n \in 0..MaxSubQueries}

Init ==
    /\ InitDeepResearch \/ InitMultiSearch
    /\ calls = {}
    /\ search_results = <<>>
    /\ completed = <<>>
    /\ all_papers = <<>>
    /\ seen_ids = {}
    /\ papers_with_content = <<>>
    /\ analysis_input = <<>>
    /\ insights = <<>>
    /\ research_report = ""
    /\ full_text_count = 0
    /\ reasoning = ""
    /\ script_result = NoScript
    /\ response = NoResponse
    /\ fb = FbIdle
    /\ batch = BatchIdle
    /\ dec = DecIdle
    /\ handoff = NoHandoff
    /\ direct = DirectIdle

Next ==
    \/ DecomposeStage
    \/ MultiSearchStart
    \/ \E i \in 1..(MaxSubQueries + 1) : SearchTaskCompletes(i)
    \/ GatherAndMerge
    \/ MultiSearchRespond
    \/ CheckPapers
    \/ FetchContentStage
    \/ ExtractInsightsStage
    \/ NarrateStage
    \/ EditStage

Spec == Init /\ [][Next]_vars

\* What every step of a handler moves: the stage it is in, the stages it
\* has entered, the search tasks that have completed.
progress == <<pc, stages, completed>>

\* Every outbound call (LLM, search, reader) returns or fails in the end:
\* each await of the handlers is resumed, so a step that can be taken is
\* taken.
SpecLive == Init /\ [][Next]_vars /\ WF_progress(Next)

(***************************************************************************)
(* search_with_fallback (POST /search of the research router).  A keyword  *)
(* string is a sequence of characters; " " is the whitespace character.    *)
(***************************************************************************)
Chars == {"a", " "}

KeywordStrings == SeqsUpTo(Chars, MaxKeywordLen)

RECURSIVE lstrip(_)
lstrip(s) == IF s # <<>> /\ Head(s) = " " THEN lstrip(Tail(s)) ELSE s

RECURSIVE rstrip(_)
rstrip(s) == IF s # <<>> /\ s[Len(s)] = " " THEN rstrip(SubSeq(s, 1, Len(s) - 1)) ELSE s

\* str.strip()
strip(s) == rstrip(lstrip(s))

\* str.split(): the maximal runs of non-whitespace characters, in order.
RECURSIVE SplitFrom(_, _, _)
SplitFrom(s, words, word) ==
    IF s = <<>> THEN (IF word = <<>> THEN words ELSE Append(words, word))
    ELSE IF Head(s) = " "
    THEN SplitFrom(Tail(s), IF word = <<>> THEN words ELSE Append(words, word), <<>>)
    ELSE SplitFrom(Tail(s), words, Append(word, Head(s)))

split(s) == SplitFrom(s, <<>>, <<>>)

\* " ".join(words)
RECURSIVE join(_)
join(words) ==
    IF words = <<>> THEN <<>>
    ELSE IF Len(words) = 1 THEN words[1]
    ELSE words[1] \o <<" ">> \o join(Tail(words))

\* Broadening whenever the keywords have more than 3 words.
BroadenOnManyWords(results, words) == Len(words) > BroadWordCount

\* Broadening on any short result, whatever the number of words.
BroadenOnShortResult(results, words) == Len(results) < FallbackThreshold

\* Broadening on an empty first result alone.
BroadenOnEmptyResult(results, words) ==
    Len(results) = 0 /\ Len(words) > BroadWordCount

\* if len(results) < 3: ... if len(words) > 3:
NeedsBroadening(results, words) ==
    Len(results) < FallbackThreshold /\ Len(words) > BroadWordCount

\* The merge of the broadened result into the first one.
RECURSIVE MergeBroadFrom(_, _, _)
MergeBroadFrom(results, existing_ids, broad_results) ==
    IF broad_results = <<>> THEN results
    ELSE LET p == Head(broad_results)
         IN IF p.paperId \notin existing_ids
            THEN MergeBroadFrom(Append(results, p), existing_ids \cup {p.paperId},
                                Tail(broad_results))
            ELSE MergeBroadFrom(results, existing_ids, Tail(broad_results))

MergeBroad(results, broad_results) ==
    MergeBroadFrom(results, {results[i].paperId : i \in DOMAIN results}, broad_results)

SearchWithFallbackResponse(results, used_fallback, original_keywords, effective_keywords) ==
    OkResponse([present |-> TRUE,
                papers |-> [i \in 1..Len(results) |-> SearchPaperResult(results[i])],
                total |-> Len(results),
                used_fallback |-> used_fallback,
                original_keywords |-> original_keywords,
                effective_keywords |-> effective_keywords])

\* An exception no handler catches: the framework answers 500.
UnhandledException == HTTPException(500, "Internal Server Error")

\* The first search returns: either the broadened search is issued, or the
\* response is built from the first result.
FbFirstSearchReturns ==
    /\ endpoint = "search" /\ fb.pc = "first_search"
    /\ \E outcome \in UpstreamOutcomes(MaxFallbackResults) :
          LET original_keywords == strip(fb.keywords)
              results == search_papers_internal(outcome)
              words == split(original_keywords)
              broad_keywords == join(Prefix(words, BroadWordCount))
          IN IF SearchRaises(outcome)
             THEN /\ fb' = [fb EXCEPT !.pc = "done",
                                      !.outcomes = Append(@, outcome.kind)]
                  /\ response' = ErrorResponse(UnhandledException)
             ELSE IF NeedsBroadening(results, words)
             THEN /\ fb' = [fb EXCEPT !.pc = "broad_search",
                                      !.first_results = results,
                                      !.effective_keywords = broad_keywords,
                                      !.used_fallback = TRUE,
                                      !.search_calls = Append(@, broad_keywords),
                                      !.outcomes = Append(@, outcome.kind)]
                  /\ UNCHANGED response
             ELSE /\ fb' = [fb EXCEPT !.pc = "done", !.first_results = results,
                                      !.outcomes = Append(@, outcome.kind)]
                  /\ response' = SearchWithFallbackResponse(results, FALSE,
                                      original_keywords, original_keywords)
    /\ UNCHANGED <<endpoint, enable_full_text, GROQ_API_KEY, pc, stages, calls,
                   sub_queries, search_results, completed, all_papers, seen_ids,
                   papers_with_content, analysis_input, insights, research_report,
                   full_text_count,
                   reasoning, script_result, batch, dec, handoff, direct>>

\* The broadened search returns: its new papers are merged and the response built.
FbBroadSearchReturns ==
    /\ endpoint = "search" /\ fb.pc = "broad_search"
    /\ \E outcome \in UpstreamOutcomes(MaxFallbackResults) :
          LET broad_results == search_papers_internal(outcome)
          IN /\ fb' = [fb EXCEPT !.pc = "done",
                                  !.broad_results =
                                      IF SearchRaises(outcome) THEN <<>> ELSE broad_results,
                                  !.outcomes = Append(@, outcome.kind)]
             /\ response' =
                   IF SearchRaises(outcome) THEN ErrorResponse(UnhandledException)
                   ELSE SearchWithFallbackResponse(
                            MergeBroad(fb.first_results, broad_results),
                            fb.used_fallback, fb.original_keywords,
                            fb.effective_keywords)
    /\ UNCHANGED <<endpoint, enable_full_text, GROQ_API_KEY, pc, stages, calls,
                   sub_queries, search_results, completed, all_papers, seen_ids,
                   papers_with_content, analysis_input, insights, research_report,
                   full_text_count,
                   reasoning, script_result, batch, dec, handoff, direct>>

\* The request has arrived and the first search has been issued.
InitFallback ==
    /\ endpoint = "search"
    /\ \E keywords \in KeywordStrings :
          fb = [pc |-> "first_search", keywords |-> keywords,
                original_keywords |-> strip(keywords),
                effective_keywords |-> strip(keywords),
                used_fallback |-> FALSE,
                first_results |-> <<>>, broad_results |-> <<>>,
                search_calls |-> <<strip(keywords)>>,
                outcomes |-> <<>>]
    /\ enable_full_text = FALSE
    /\ GROQ_API_KEY = TRUE
    /\ pc = "IDLE"
    /\ stages = <<>>
    /\ calls = {}
    /\ sub_queries = <<>>
    /\ search_results = <<>>
    /\ completed = <<>>
    /\ all_papers = <<>>
    /\ seen_ids = {}
    /\ papers_with_content = <<>>
    /\ analysis_input = <<>>
    /\ insights = <<>>
    /\ research_report = ""
    /\ full_text_count = 0
    /\ reasoning = ""
    /\ script_result = NoScript
    /\ response = NoResponse
    /\ batch = BatchIdle
    /\ dec = DecIdle
    /\ handoff = NoHandoff
    /\ direct = DirectIdle

NextFallback == FbFirstSearchReturns \/ FbBroadSearchReturns

SpecFallback == InitFallback /\ [][NextFallback]_vars

(***************************************************************************)
(* fetch_multiple_papers_content called on its own, with any list of paper *)
(* dicts and any max_papers.  gets is history: the GETs sent to the reader *)
(* service, in the order they were sent; fetched is history: the indices   *)
(* of the papers fetch_paper_content was called for.                       *)
(***************************************************************************)
FullDict == PaperDict(PaperA)

NullDict == PaperDict(PaperB)

PageOnlyDict == PaperDict(PaperC)

\* A dict holding paperId and title and no other key.
BareDict ==
    [paperId |-> "P3", title |-> "T3", abstract |-> Missing, year |-> Missing,
     url |-> Missing, pdfUrl |-> Missing]

BatchDicts == {FullDict, NullDict, PageOnlyDict, BareDict}

\* The outcomes of the GETs that can be sent for one paper.
ReaderPairs(paper) ==
    [pdf : IF Truthy(paper.pdfUrl) THEN ReaderOutcomes ELSE {NoGet},
     page : IF Truthy(paper.url) THEN ReaderOutcomes ELSE {NoGet}]

\* max_papers is any int: the limits up to MaxBatchLimit, and a negative one.
BatchLimits == {-2} \cup 0..MaxBatchLimit

\* The GETs fetch_paper_content sends for paper i: the PDF link if there is
\* one, then the page link if there is one and the PDF gave nothing.
ReaderCalls(i, paper_url, pdf_url, reader) ==
    (IF Truthy(pdf_url)
     THEN <<[index |-> i, source |-> "jina_pdf", outcome |-> reader.pdf]>>
     ELSE <<>>)
    \o (IF ~(Truthy(pdf_url) /\ fetch_via_jina(reader.pdf).success) /\ Truthy(paper_url)
        THEN <<[index |-> i, source |-> "jina_page", outcome |-> reader.page]>>
        ELSE <<>>)

\* Where papers[:max_papers] ends and papers[max_papers:] starts.
BatchStart == SliceEnd(batch.max_papers, Len(batch.papers))

\* for i, paper in enumerate(papers[:max_papers]): one turn of the loop.
BatchFetchNext ==
    /\ endpoint = "fetch_batch" /\ batch.pc = "fetching"
    /\ batch.i <= BatchStart
    /\ \E reader \in ReaderPairs(batch.papers[batch.i]) :
          LET paper == batch.papers[batch.i]
              fetched == FetchedPaper(paper, reader)
          IN batch' = [batch EXCEPT
                 !.i = @ + 1,
                 !.papers_with_content = Append(@, fetched),
                 !.full_text_count =
                     IF fetched.full_content.content_type = "full_text"
                     THEN @ + 1 ELSE @,
                 !.fetched = @ \cup {batch.i},
                 !.gets = @ \o ReaderCalls(batch.i, Get(paper.url, ""),
                                           Get(paper.pdfUrl, None), reader)]
    /\ UNCHANGED <<endpoint, enable_full_text, GROQ_API_KEY, pc, stages, calls,
                   sub_queries, search_results, completed, all_papers, seen_ids,
                   papers_with_content, analysis_input, insights, research_report,
                   full_text_count, reasoning, script_result, response, fb, dec, handoff, direct>>

\* for paper in papers[max_papers:]: the whole loop, and the return.
BatchFillRemaining ==
    /\ endpoint = "fetch_batch" /\ batch.pc = "fetching"
    /\ batch.i > BatchStart
    /\ batch' = [batch EXCEPT
           !.pc = "done",
           !.papers_with_content =
               @ \o [k \in 1..Len(Suffix(batch.papers, BatchStart))
                       |-> WithContent(Suffix(batch.papers, BatchStart)[k],
                                       AbstractOnly(Suffix(batch.papers, BatchStart)[k]))]]
    /\ UNCHANGED <<endpoint, enable_full_text, GROQ_API_KEY, pc, stages, calls,
                   sub_queries, search_results, completed, all_papers, seen_ids,
                   papers_with_content, analysis_input, insights, research_report,
                   full_text_count, reasoning, script_result, response, fb, dec, handoff, direct>>

\* The call has been made: papers_with_content = [], full_text_count = 0.
InitFetch ==
    /\ endpoint = "fetch_batch"
    /\ \E papers \in SeqsUpTo(BatchDicts, MaxBatch), max_papers \in BatchLimits :
          batch = [pc |-> "fetching", papers |-> papers, max_papers |-> max_papers,
                   i |-> 1, papers_with_content |-> <<>>, full_text_count |-> 0,
                   fetched |-> {}, gets |-> <<>>]
    /\ enable_full_text = TRUE
    /\ GROQ_API_KEY = TRUE
    /\ pc = "IDLE"
    /\ stages = <<>>
    /\ calls = {}
    /\ sub_queries = <<>>
    /\ search_results = <<>>
    /\ completed = <<>>
    /\ all_papers = <<>>
    /\ seen_ids = {}
    /\ papers_with_content = <<>>
    /\ analysis_input = <<>>
    /\ insights = <<>>
    /\ research_report = ""
    /\ full_text_count = 0
    /\ reasoning = ""
    /\ script_result = NoScript
    /\ response = NoResponse
    /\ fb = FbIdle
    /\ dec = DecIdle
    /\ handoff = NoHandoff
    /\ direct = DirectIdle

NextFetch == BatchFetchNext \/ BatchFillRemaining

SpecFetch == InitFetch /\ [][NextFetch]_vars

(***************************************************************************)
(* generate_sub_queries called on its own, with any reply of the LLM.      *)
(***************************************************************************)
LlmQueries == {BaseKeywords, 1, 2}

DecomposerReplies ==
    {[kind |-> k, sub_queries |-> <<>>] : k \in DecomposerFailures}
    \cup {[kind |-> "list", sub_queries |-> q] : q \in SeqsUpTo(LlmQueries, MaxLlmQueries)}

\* The try block holds the LLM call, json.loads and the checks, and ends in
\* except Exception: nothing is raised to the caller.
DecomposerRaises(key, outcome) == FALSE

DecomposerReturns ==
    /\ endpoint = "decompose" /\ dec.pc = "called"
    /\ dec' = IF DecomposerRaises(GROQ_API_KEY, dec.outcome)
              THEN [dec EXCEPT !.pc = "returned", !.raised = TRUE]
              ELSE LET result == generate_sub_queries(GROQ_API_KEY, BaseKeywords,
                                                      dec.outcome)
                   IN [dec EXCEPT !.pc = "returned",
                                  !.llm = LlmCalls("decomposer", GROQ_API_KEY),
                                  !.reasoning = result.reasoning,
                                  !.sub_queries = result.sub_queries]
    /\ UNCHANGED <<endpoint, enable_full_text, GROQ_API_KEY, pc, stages, calls,
                   sub_queries, search_results, completed, all_papers, seen_ids,
                   papers_with_content, analysis_input, insights, research_report,
                   full_text_count, reasoning, script_result, response, fb, batch, handoff, direct>>

InitDecompose ==
    /\ endpoint = "decompose"
    /\ GROQ_API_KEY \in BOOLEAN
    /\ \E outcome \in DecomposerReplies :
          dec = [pc |-> "called", outcome |-> outcome, reasoning |-> "",
                 sub_queries |-> <<>>, raised |-> FALSE, llm |-> {}]
    /\ enable_full_text = TRUE
    /\ pc = "IDLE"
    /\ stages = <<>>
    /\ calls = {}
    /\ sub_queries = <<>>
    /\ search_results = <<>>
    /\ completed = <<>>
    /\ all_papers = <<>>
    /\ seen_ids = {}
    /\ papers_with_content = <<>>
    /\ analysis_input = <<>>
    /\ insights = <<>>
    /\ research_report = ""
    /\ full_text_count = 0
    /\ reasoning = ""
    /\ script_result = NoScript
    /\ response = NoResponse
    /\ fb = FbIdle
    /\ batch = BatchIdle
    /\ handoff = NoHandoff
    /\ direct = DirectIdle

NextDecompose == DecomposerReturns

SpecDecompose == InitDecompose /\ [][NextDecompose]_vars

(***************************************************************************)
(* start_deep_research from the end of the fan-out on, for result sets of  *)
(* up to MaxPapers papers.  Without a key the Decomposer gave the one      *)
(* sub-query base_keywords; with a key there are two sub-queries, the      *)
(* second returning the last paper of the first again.  A search returns   *)
(* at most SearchLimit papers.                                             *)
(***************************************************************************)
\* Which papers of a result set of n carry an open-access PDF link.
LinkPatterns == {"none", "all", "last"}

\* Paper i of a result set of n: paper `bare` has no abstract.
StagePaper(i, n, bare, links) ==
    [paperId |-> i, title |-> "T", abstract |-> IF i = bare THEN None ELSE "A",
     year |-> "2020", url |-> None,
     openAccessPdf |-> IF links = "all" \/ (links = "last" /\ i = n)
                       THEN "F1" ELSE None]

DoneTask(papers) == [done |-> TRUE, raised |-> FALSE, failed |-> FALSE,
                     papers |-> papers]

\* The gathered results that hold papers 1..n between them.
StageResults(key, n, bare, links) ==
    LET found == [i \in 1..n |-> StagePaper(i, n, bare, links)]
    IN IF ~key THEN <<DoneTask(found)>>
       ELSE <<DoneTask(Prefix(found, SearchLimit)),
              DoneTask(SubSeq(found, Min(SearchLimit, n + 1), n))>>

InitStages ==
    /\ endpoint = "deep_research"
    /\ enable_full_text \in BOOLEAN
    /\ GROQ_API_KEY \in BOOLEAN
    /\ pc = "SEARCH"
    /\ stages = <<"DECOMPOSE", "SEARCH">>
    /\ calls = {"decomposer", "search"}
    /\ sub_queries = generate_sub_queries(GROQ_API_KEY, BaseKeywords,
                                          [kind |-> "list", sub_queries |-> QueryList(2)]).sub_queries
    /\ \E n \in 0..MaxPapers : \E bare \in 0..n : \E links \in LinkPatterns :
          /\ ~GROQ_API_KEY => n <= SearchLimit
          /\ search_results = StageResults(GROQ_API_KEY, n, bare, links)
    /\ completed = [i \in DOMAIN sub_queries |-> i]
    /\ all_papers = <<>>
    /\ seen_ids = {}
    /\ papers_with_content = <<>>
    /\ analysis_input = <<>>
    /\ insights = <<>>
    /\ research_report = ""
    /\ full_text_count = 0
    /\ reasoning = generate_sub_queries(GROQ_API_KEY, BaseKeywords,
                                        [kind |-> "list", sub_queries |-> QueryList(2)]).reasoning
    /\ script_result = NoScript
    /\ response = NoResponse
    /\ fb = FbIdle
    /\ batch = BatchIdle
    /\ dec = DecIdle
    /\ handoff = [NoHandoff EXCEPT !.llm = LlmCalls("decomposer", GROQ_API_KEY)]
    /\ direct = DirectIdle

NextStages ==
    \/ GatherAndMerge
    \/ CheckPapers
    \/ FetchContentStage
    \/ ExtractInsightsStage
    \/ NarrateStage
    \/ EditStage

SpecStages == InitStages /\ [][NextStages]_vars

(***************************************************************************)
(* The four LLM stages called on their own: generate_sub_queries,          *)
(* analyze_papers (the /analyze handler), generate_research_report and     *)
(* generate_final_script, with and without the key, for every outcome of   *)
(* the LLM call.                                                           *)
(***************************************************************************)
\* The request of /analyze: no paper, or one.
AnalyzeInputs == {<<>>, <<PaperInput(PaperDict(PaperA))>>}

DirectCall(fn, outcome, papers) ==
    [pc |-> "called", fn |-> fn, outcome |-> outcome, papers |-> papers,
     llm |-> {}, error |-> NoError, value |-> <<>>]

AnalyzeReturns ==
    /\ endpoint = "analyze" /\ direct.pc = "called"
    /\ LET analyze_response == analyze_papers(GROQ_API_KEY, direct.papers,
                                              direct.outcome)
       IN direct' = [direct EXCEPT !.pc = "returned",
                                   !.llm = LlmCalls("extractor", GROQ_API_KEY),
                                   !.error = analyze_response.error,
                                   !.value = analyze_response.insights]
    /\ UNCHANGED <<endpoint, enable_full_text, GROQ_API_KEY, pc, stages, calls,
                   sub_queries, search_results, completed, all_papers, seen_ids,
                   papers_with_content, analysis_input, insights, research_report,
                   full_text_count, reasoning, script_result, response, fb, batch,
                   dec, handoff>>

NarratorReturns ==
    /\ endpoint = "generate_report" /\ direct.pc = "called"
    /\ direct' = IF NarratorRaises(GROQ_API_KEY, direct.outcome)
                 THEN [direct EXCEPT !.pc = "returned",
                                     !.llm = LlmCalls("narrator", GROQ_API_KEY),
                                     !.error = HTTPException(500, "unhandled")]
                 ELSE [direct EXCEPT !.pc = "returned",
                                     !.llm = LlmCalls("narrator", GROQ_API_KEY),
                                     !.value = generate_research_report(
                                                   GROQ_API_KEY, direct.outcome)]
    /\ UNCHANGED <<endpoint, enable_full_text, GROQ_API_KEY, pc, stages, calls,
                   sub_queries, search_results, completed, all_papers, seen_ids,
                   papers_with_content, analysis_input, insights, research_report,
                   full_text_count, reasoning, script_result, response, fb, batch,
                   dec, handoff>>

EditorReturns ==
    /\ endpoint = "final_script" /\ direct.pc = "called"
    /\ direct' = [direct EXCEPT !.pc = "returned",
                                !.llm = LlmCalls("editor", GROQ_API_KEY),
                                !.value = generate_final_script(GROQ_API_KEY,
                                                                direct.outcome)]
    /\ UNCHANGED <<endpoint, enable_full_text, GROQ_API_KEY, pc, stages, calls,
                   sub_queries, search_results, completed, all_papers, seen_ids,
                   papers_with_content, analysis_input, insights, research_report,
                   full_text_count, reasoning, script_result, response, fb, batch,
                   dec, handoff>>

InitLlmStages ==
    /\ GROQ_API_KEY \in BOOLEAN
    /\ \/ /\ endpoint = "decompose"
          /\ \E outcome \in DecomposerReplies :
                dec = [pc |-> "called", outcome |-> outcome, reasoning |-> "",
                       sub_queries |-> <<>>, raised |-> FALSE, llm |-> {}]
          /\ direct = DirectIdle
       \/ /\ endpoint = "analyze"
          /\ \E outcome \in ExtractorOutcomes : \E papers \in AnalyzeInputs :
                direct = DirectCall("extractor", outcome, papers)
          /\ dec = DecIdle
       \/ /\ endpoint = "generate_report"
          /\ \E outcome \in NarratorOutcomes :
                direct = DirectCall("narrator", outcome, <<>>)
          /\ dec = DecIdle
       \/ /\ endpoint = "final_script"
          /\ \E outcome \in EditorOutcomes :
                direct = DirectCall("editor", outcome, <<>>)
          /\ dec = DecIdle
    /\ enable_full_text = TRUE
    /\ pc = "IDLE"
    /\ stages = <<>>
    /\ calls = {}
    /\ sub_queries = <<>>
    /\ search_results = <<>>
    /\ completed = <<>>
    /\ all_papers = <<>>
    /\ seen_ids = {}
    /\ papers_with_content = <<>>
    /\ analysis_input = <<>>
    /\ insights = <<>>
    /\ research_report = ""
    /\ full_text_count = 0
    /\ reasoning = ""
    /\ script_result = NoScript
    /\ response = NoResponse
    /\ fb = FbIdle
    /\ batch = BatchIdle
    /\ handoff = NoHandoff

NextLlmStages ==
    \/ DecomposerReturns
    \/ AnalyzeReturns
    \/ NarratorReturns
    \/ EditorReturns

SpecLlmStages == InitLlmStages /\ [][NextLlmStages]_vars

(***************************************************************************)
(* The Narrator in the run (from the end of the fan-out on) and called on  *)
(* its own.                                                                *)
(***************************************************************************)
InitNarrator == InitStages \/ (InitLlmStages /\ endpoint = "generate_report")

NextNarrator == NextStages \/ NarratorReturns

SpecNarrator == InitNarrator /\ [][NextNarrator]_vars

(***************************************************************************)
(* Properties.                                                             *)
(***************************************************************************)
NoDuplicateIds(papers) ==
    \A i, j \in DOMAIN papers : i # j => papers[i].paperId # papers[j].paperId

\* The places <<i, j>> of the papers the sub-query searches returned.
Places ==
    {o \in (DOMAIN search_results) \X (1..MaxResults) :
        ~search_results[o[1]].raised /\ o[2] <= Len(search_results[o[1]].papers)}

PaperAt(o) == search_results[o[1]].papers[o[2]]

AllReturnedIds == {PaperAt(o).paperId : o \in Places}

Before(a, b) == a[1] < b[1] \/ (a[1] = b[1] /\ a[2] < b[2])

\* No place before o, in sub-query submission order, holds the paperId at o.
IsFirstOccurrence(o, places) ==
    \A o2 \in places : Before(o2, o) => PaperAt(o2).paperId # PaperAt(o).paperId

\* The merge has run and the gathered results are still at hand.
JustMerged == pc = "DEDUPLICATE"

\* C1: the merged paper list of the multi-search (the /multi-search endpoint
\* and stage 2 of start_deep_research) never holds two papers with the same
\* paperId, whatever the sub-query results and the order the tasks completed
\* in; every paperId some sub-query returned is in the list exactly once, and
\* the response of /multi-search holds that list.
C1_NoDuplicatePaperIds ==
    /\ NoDuplicateIds(all_papers)
    /\ JustMerged =>
          LET returned == AllReturnedIds
          IN /\ \A id \in returned :
                   Cardinality({k \in DOMAIN all_papers : all_papers[k].paperId = id}) = 1
             /\ \A k \in DOMAIN all_papers : all_papers[k].paperId \in returned
             /\ seen_ids = returned
    /\ (endpoint = "multi_search" /\ response.kind = "result") =>
          /\ NoDuplicateIds(response.body.papers)
          /\ response.body.total_papers = Len(all_papers)
          /\ \A k \in DOMAIN all_papers :
                response.body.papers[k].paperId = all_papers[k].paperId
    /\ (endpoint = "deep_research" /\ response.kind = "result") =>
          NoDuplicateIds(response.body.papers)

\* C1 witness: two sub-queries both returned P1, one of them twice, the
\* second finished first, and the merge has run.
C1_Witness ==
    /\ JustMerged
    /\ Len(search_results) >= 2
    /\ completed[1] = 2
    /\ search_results[1].papers = <<PaperA, PaperA>>
    /\ search_results[2].papers = <<PaperC, PaperB>>
    /\ Len(all_papers) = 2

\* C2: the merged list is a function of the results by sub-query index alone:
\* each kept paper is the first copy of its paperId in sub-query submission
\* order (lowest index, then position), and the kept papers are in that order,
\* whatever the order the tasks completed in.
C2_SubmissionOrderMerge ==
    JustMerged =>
        LET places == Places
            firsts == {o \in places : IsFirstOccurrence(o, places)}
        IN /\ Len(all_papers) = Cardinality(firsts)
           /\ \A k \in DOMAIN all_papers :
                 \E o \in firsts :
                    /\ all_papers[k] = PaperAt(o)
                    /\ Cardinality({o2 \in firsts : Before(o2, o)}) = k - 1

\* C2 witness: sub-query 2 finished first with one copy of P1, sub-query 1
\* finished later with the other copy, and the copy of sub-query 1 was kept.
C2_Witness ==
    /\ JustMerged
    /\ completed = <<2, 1>>
    /\ search_results[2].papers = <<PaperA, PaperC>>
    /\ search_results[1].papers = <<PaperB>>
    /\ all_papers = <<PaperB, PaperC>>

LaterCollaborators == {"fetcher", "extractor", "narrator", "editor"}

LaterStages == {"FETCH_CONTENT", "EXTRACT_INSIGHTS", "NARRATE", "EDIT", "COMPLETE"}

\* C3: in start_deep_research, once the merge has left an empty paper list
\* and the emptiness test has run, the run has failed with the "No papers found"
\* error, HTTP 404, and no later stage was entered: the Content Fetcher, the
\* Insight Extractor, the Narrator and the Editor were not called.
C3_NoPapersIsNotFound ==
    (/\ endpoint = "deep_research"
     /\ pc \notin {"DECOMPOSE", "SEARCH", "DEDUPLICATE"}
     /\ Len(all_papers) = 0) =>
        /\ pc = "FAILED"
        /\ response.kind = "error"
        /\ response.status = 404
        /\ response.detail = "No papers found across all search queries"
        /\ ~response.body.present
        /\ calls \cap LaterCollaborators = {}
        /\ Range(stages) \cap LaterStages = {}
        /\ stages[Len(stages)] = "DEDUPLICATE"

\* C3 witness: a run in deep mode with two sub-queries, both searched, ended
\* with the 404.
C3_Witness ==
    /\ endpoint = "deep_research"
    /\ pc = "FAILED"
    /\ response.status = 404
    /\ enable_full_text
    /\ Len(sub_queries) = 2
    /\ "search" \in calls

StageRank(stage) ==
    CASE stage = "DECOMPOSE" -> 1
      [] stage = "SEARCH" -> 2
      [] stage = "DEDUPLICATE" -> 3
      [] stage = "FETCH_CONTENT" -> 4
      [] stage = "EXTRACT_INSIGHTS" -> 5
      [] stage = "NARRATE" -> 6
      [] stage = "EDIT" -> 7
      [] stage = "COMPLETE" -> 8
      [] OTHER -> 0

LastStage == stages[Len(stages)]

Terminal == pc \in {"COMPLETE", "FAILED"}

\* C4: a run of start_deep_research enters its stages in the order DECOMPOSE,
\* SEARCH, DEDUPLICATE, FETCH_CONTENT (which may be left out), EXTRACT_INSIGHTS,
\* NARRATE, EDIT, COMPLETE: each stage entered is the successor of the one
\* entered before it, so none is entered twice and none after a later one; the
\* run is in the stage it entered last, and a run that failed or completed
\* takes no further step.
C4_StagesInOrder ==
    endpoint = "deep_research" =>
        /\ Len(stages) >= 1
        /\ stages[1] = "DECOMPOSE"
        /\ \A k \in 1..(Len(stages) - 1) :
              \/ StageRank(stages[k + 1]) = StageRank(stages[k]) + 1
              \/ stages[k] = "DEDUPLICATE" /\ stages[k + 1] = "EXTRACT_INSIGHTS"
        /\ \A k \in DOMAIN stages : StageRank(stages[k]) > 0
        /\ pc # "FAILED" => pc = LastStage
        /\ pc = "FAILED" => LastStage # "COMPLETE"
        /\ Terminal => ~ENABLED Next

\* C4 witness: a run in deep mode that went through all eight stages.
C4_Witness ==
    /\ endpoint = "deep_research"
    /\ stages = <<"DECOMPOSE", "SEARCH", "DEDUPLICATE", "FETCH_CONTENT",
                  "EXTRACT_INSIGHTS", "NARRATE", "EDIT", "COMPLETE">>
    /\ pc = "COMPLETE"

BlueprintParts == {"key_insights", "narrative", "references"}

\* C5: once a run of start_deep_research has entered NARRATE, what it returns
\* is either a result whose content blueprint has the insights, a narrative
\* with all four fields (each a string) and the references list, or an error
\* with no body at all; until then it has returned nothing.
C5_BlueprintWholeOrAbsent ==
    (endpoint = "deep_research" /\ "NARRATE" \in Range(stages)) =>
        /\ response.kind = "none" <=> pc \in {"NARRATE", "EDIT"}
        /\ response.kind = "error" =>
              /\ pc = "FAILED"
              /\ ~response.body.present
              /\ response.status = 500
        /\ response.kind = "result" =>
              /\ pc = "COMPLETE"
              /\ response.body.present
              /\ DOMAIN response.body.content_blueprint = BlueprintParts
              /\ DOMAIN response.body.content_blueprint.narrative = NarrativeFields
              /\ \A f \in NarrativeFields :
                    response.body.content_blueprint.narrative[f] \in {"text", ""}
              /\ response.body.content_blueprint.key_insights = insights
              /\ Len(response.body.content_blueprint.references)
                    = Min(AnalysisLimit, Len(papers_with_content))

\* C5 witness: the Editor's LLM returned a narrative with the hook alone and
\* the run returned a result.
C5_Witness ==
    /\ endpoint = "deep_research"
    /\ response.kind = "result"
    /\ script_result.has_narrative
    /\ DOMAIN script_result.narrative = {"hook"}

\* C6: in start_deep_research, when the Editor has returned an error value the
\* run has failed with "Editor failed", HTTP 500, and has returned no body: no
\* blueprint and no narrative.
C6_EditorErrorIsFatal ==
    (endpoint = "deep_research" /\ "editor" \in calls /\ script_result.error) =>
        /\ pc = "FAILED"
        /\ response.kind = "error"
        /\ response.status = 500
        /\ response.detail = "Editor failed"
        /\ ~response.body.present
        /\ LastStage = "EDIT"

\* C6 witness: the Editor's LLM output did not parse as JSON.
C6_Witness ==
    /\ endpoint = "deep_research"
    /\ "editor" \in calls
    /\ script_result.error
    /\ script_result.detail = "JSON parse error"
    /\ pc = "FAILED"

ExtractorErrors == {"GROQ_API_KEY not configured", "Failed to parse AI response",
                    "Error analyzing papers"}

\* C7: a run of start_deep_research has failed only with an empty
\* deduplicated paper set or in the Editor's stage; a failure of any other
\* collaborator, the Insight Extractor included, does not end the run.
C7_OnlyTwoFailures ==
    (endpoint = "deep_research" /\ pc = "FAILED") =>
        \/ Len(all_papers) = 0
        \/ LastStage = "EDIT"

\* What the handler does: a run has failed only in three cases:
\* the deduplicated paper set is empty (404, at DEDUPLICATE), the Insight
\* Extractor raised (500, at EXTRACT_INSIGHTS, the Narrator not called), or
\* the Editor's stage failed (500, at EDIT: the Editor returned an error value
\* or its narrative did not validate).  No run fails in DECOMPOSE, SEARCH,
\* FETCH_CONTENT or NARRATE.
FailureCauses ==
    (endpoint = "deep_research" /\ pc = "FAILED") =>
        /\ response.kind = "error"
        /\ \/ /\ LastStage = "DEDUPLICATE"
              /\ Len(all_papers) = 0
              /\ response.status = 404
           \/ /\ LastStage = "EXTRACT_INSIGHTS"
              /\ Len(all_papers) > 0
              /\ response.status = 500
              /\ response.detail \in ExtractorErrors
              /\ "extractor" \in calls
              /\ "narrator" \notin calls
           \/ /\ LastStage = "EDIT"
              /\ Len(all_papers) > 0
              /\ response.status = 500
              /\ "editor" \in calls
              /\ \/ script_result.error /\ response.detail = "Editor failed"
                 \/ /\ ~script_result.error
                    /\ response.detail = "Deep research failed"
                    /\ \E f \in DOMAIN script_result.narrative :
                          script_result.narrative[f] = "null"

\* A run completed although the Decomposer's LLM call failed, both
\* reader fetches of a paper with a PDF link failed and the Narrator's LLM
\* call failed.
DegradedRunCompletes ==
    /\ endpoint = "deep_research"
    /\ pc = "COMPLETE"
    /\ reasoning = "Error occurred"
    /\ research_report = "Error generating research report"
    /\ papers_with_content[1].pdfUrl = "F1"
    /\ papers_with_content[1].full_content.source = "abstract"

\* C8 as claimed: in a run that has ended, the Content Fetcher was called if
\* and only if enable_full_text is true.
C8_FetchIffFlag ==
    (endpoint = "deep_research" /\ Terminal) =>
        ("fetcher" \in calls <=> enable_full_text)

\* C8, amended: the Content Fetcher is called only with enable_full_text true,
\* and in every run with the flag true that got past DEDUPLICATE (its paper
\* set was not empty) it was called before EXTRACT_INSIGHTS; with the flag
\* false every paper handed to the later stages carries content_type abstract
\* and its own abstract as content.
C8_FlagGatesFetch ==
    endpoint = "deep_research" =>
        /\ "fetcher" \in calls => enable_full_text
        /\ (enable_full_text /\ "EXTRACT_INSIGHTS" \in Range(stages)) =>
              "fetcher" \in calls
        /\ (enable_full_text /\ Terminal /\ Len(all_papers) > 0) =>
              "fetcher" \in calls
        /\ (~enable_full_text /\ "EXTRACT_INSIGHTS" \in Range(stages)) =>
              /\ Len(papers_with_content) = Len(all_papers)
              /\ \A k \in DOMAIN papers_with_content :
                    /\ papers_with_content[k].full_content.content_type = "abstract"
                    /\ papers_with_content[k].full_content.content
                          = Plain(papers_with_content[k].abstract)
                    /\ papers_with_content[k].abstract = all_papers[k].abstract
                    /\ papers_with_content[k].paperId = all_papers[k].paperId

\* C8 witness: a run in fast mode reached the Narrator with two papers, one of
\* them without an abstract.
C8_Witness ==
    /\ endpoint = "deep_research"
    /\ ~enable_full_text
    /\ pc = "NARRATE"
    /\ Len(papers_with_content) = 2
    /\ papers_with_content[1].abstract = None

ReturnedIds == {response.body.papers[k].paperId : k \in DOMAIN response.body.papers}

TokenCount == Len(split(fb.original_keywords))

\* C9 as claimed: whenever the first search of search_with_fallback returned
\* fewer than 3 papers, a second search was issued and the response has
\* used_fallback = true.
C9_ShortResultAlwaysBroadens ==
    (endpoint = "search" /\ fb.pc = "done" /\ Len(fb.first_results) < 3) =>
        /\ Len(fb.search_calls) = 2
        /\ response.body.used_fallback

\* C9, amended: whenever the first search of search_with_fallback returned
\* fewer than 3 papers and the stripped keywords have more than 3
\* whitespace-delimited tokens, a second search is issued, for the first 3
\* tokens, and the response has used_fallback = true.
C9_ShortResultBroadens ==
    (/\ endpoint = "search"
     /\ fb.pc # "first_search"
     /\ Len(fb.first_results) < 3
     /\ TokenCount > 3) =>
        /\ Len(fb.search_calls) = 2
        /\ fb.search_calls[2] = join(Prefix(split(fb.original_keywords), 3))
        /\ fb.pc = "done" =>
              /\ response.kind = "result"
              /\ response.body.used_fallback
              /\ response.body.effective_keywords = fb.search_calls[2]

\* C9 witness: the first search for four tokens returned two papers and the
\* response reports the fallback.
C9_Witness ==
    /\ endpoint = "search"
    /\ fb.pc = "done"
    /\ Len(fb.first_results) = 2
    /\ TokenCount = 4
    /\ response.body.used_fallback
    /\ Len(fb.search_calls) = 2

\* C10: when search_with_fallback has performed the broadened search, the
\* returned paper list holds every paperId of the first search and of the
\* broadened search, and no two of its papers share a paperId.
C10_BroadenedMergeIsDeduplicated ==
    (endpoint = "search" /\ fb.pc = "done" /\ fb.used_fallback) =>
        /\ \A k \in DOMAIN fb.first_results :
              fb.first_results[k].paperId \in ReturnedIds
        /\ \A k \in DOMAIN fb.broad_results :
              fb.broad_results[k].paperId \in ReturnedIds
        /\ \A m, n \in DOMAIN response.body.papers :
              response.body.papers[m].paperId = response.body.papers[n].paperId
                  => m = n

\* The response of search_with_fallback holds the first search's result, as is.
ReturnsFirstResult ==
    /\ response.kind = "result"
    /\ response.body.papers
          = [k \in 1..Len(fb.first_results) |-> SearchPaperResult(fb.first_results[k])]
    /\ response.body.total = Len(fb.first_results)

\* C11: in search_with_fallback, when the first search returned 3 or more
\* papers, the request is answered at once: one search call was made,
\* used_fallback is false, effective_keywords equals original_keywords (the
\* stripped keywords), and the returned papers are the first search's result
\* in its order.
C11_EnoughResultsNoFallback ==
    (endpoint = "search" /\ fb.pc # "first_search" /\ Len(fb.first_results) >= 3) =>
        /\ fb.pc = "done"
        /\ fb.search_calls = <<strip(fb.keywords)>>
        /\ ~response.body.used_fallback
        /\ response.body.original_keywords = strip(fb.keywords)
        /\ response.body.effective_keywords = response.body.original_keywords
        /\ ReturnsFirstResult

\* C11 witness: the first search for four tokens returned three papers.
C11_Witness ==
    /\ endpoint = "search"
    /\ fb.pc = "done"
    /\ Len(fb.first_results) = 3
    /\ TokenCount = 4
    /\ ~response.body.used_fallback

\* C12: in search_with_fallback, when the stripped keywords have 3 or fewer
\* whitespace-delimited tokens and the first search returned fewer than 3
\* papers, no broadened search is issued: exactly one search call was made,
\* effective_keywords equals original_keywords, used_fallback is false and the
\* first result is returned.
C12_FewTokensNoFallback ==
    (/\ endpoint = "search"
     /\ fb.pc # "first_search"
     /\ TokenCount <= 3
     /\ Len(fb.first_results) < 3) =>
        /\ fb.pc = "done"
        /\ Len(fb.search_calls) = 1
        /\ ~response.body.used_fallback
        /\ response.body.effective_keywords = response.body.original_keywords
        /\ response.body.original_keywords = strip(fb.keywords)
        /\ ReturnsFirstResult

\* C12 witness: the first search for three tokens returned one paper.
C12_Witness ==
    /\ endpoint = "search"
    /\ fb.pc = "done"
    /\ TokenCount = 3
    /\ Len(fb.first_results) = 1
    /\ Len(fb.search_calls) = 1

NotFailed(task) == ~task.failed

\* C13: in the multi-search fan-out (multi_search and stage 2 of
\* start_deep_research) a sub-query search that failed contributed no paper
\* and changed nothing else: the merged list is the merge of the results of
\* the sub-queries that did not fail, and no error has been returned to the
\* caller by the time the merge is done; multi_search never returns an error.
C13_FailedSearchContributesNothing ==
    /\ JustMerged =>
          /\ \A i \in DOMAIN search_results :
                search_results[i].failed => search_results[i].papers = <<>>
          /\ all_papers = MergeDedup(SelectSeq(search_results, NotFailed)).all_papers
          /\ seen_ids = MergeDedup(SelectSeq(search_results, NotFailed)).seen_ids
          /\ response.kind = "none"
    /\ endpoint = "multi_search" => response.kind # "error"

\* C13 witness: the first sub-query's search failed, the second returned two
\* papers, and the merged list is the second's result.
C13_Witness ==
    /\ JustMerged
    /\ Len(search_results) = 2
    /\ search_results[1].failed
    /\ search_results[2].papers = <<PaperB, PaperC>>
    /\ all_papers = <<PaperB, PaperC>>

\* C14: search_papers_internal never raises and returns an empty list for
\* every failing upstream outcome (status other than 200, timeout, connection
\* error, body that is not JSON, body of another shape): a search call of
\* search_with_fallback that failed left an empty result, and the request was
\* answered with a result, never with an error.
C14_SearchNeverRaises ==
    endpoint = "search" =>
        /\ response.kind # "error"
        /\ fb.pc = "done" => response.kind = "result"
        /\ (Len(fb.outcomes) >= 1 /\ fb.outcomes[1] \in FailureKinds) =>
              fb.first_results = <<>>
        /\ (Len(fb.outcomes) >= 2 /\ fb.outcomes[2] \in FailureKinds) =>
              fb.broad_results = <<>>
        /\ \A k \in DOMAIN fb.outcomes : fb.outcomes[k] \in FailureKinds \cup {"ok"}

\* C14 witness: the first search got a body of the wrong shape, the broadened
\* one timed out, and the request was answered with an empty paper list.
C14_Witness ==
    /\ endpoint = "search"
    /\ fb.pc = "done"
    /\ fb.outcomes = <<"bad_shape", "timeout">>
    /\ response.kind = "result"
    /\ response.body.total = 0

BatchDone == endpoint = "fetch_batch" /\ batch.pc = "done"

\* The papers of the batch after the first max_papers.
RemainingPapers == (BatchStart + 1)..Len(batch.papers)

\* The GETs sent for paper i, in the order they were sent.
GetsFor(i) == SelectSeq(batch.gets, LAMBDA g : g.index = i)

\* The GET gave nothing: no 200, or a body of at most 200 characters.
GetFailed(outcome) == outcome.kind # "200" \/ outcome.text.len <= 200

AbstractAbsent(paper) == paper.abstract \in {Missing, None}

\* C15: fetch_multiple_papers_content with max_papers = N on M > N papers
\* calls fetch_paper_content for the first N papers and sends GETs for no
\* other, and each of the remaining M - N papers has content_type abstract
\* with its abstract field as content, or the literal "No abstract
\* available." when the abstract is absent (key missing, or null).
C15_RemainingPapersGetAbstract ==
    (BatchDone /\ batch.max_papers >= 0 /\ Len(batch.papers) > batch.max_papers) =>
        /\ batch.fetched = 1..batch.max_papers
        /\ \A g \in DOMAIN batch.gets : batch.gets[g].index \in 1..batch.max_papers
        /\ \A k \in RemainingPapers :
              /\ batch.papers_with_content[k].full_content.content_type = "abstract"
              /\ batch.papers_with_content[k].full_content.content
                    = Plain(IF AbstractAbsent(batch.papers[k])
                            THEN "No abstract available."
                            ELSE batch.papers[k].abstract)

\* What the function does: as C15, but a remaining paper whose abstract is
\* null has null as content; the literal is used only for a missing key.
RemainingPapersKeepAbstractValue ==
    (BatchDone /\ batch.max_papers >= 0 /\ Len(batch.papers) > batch.max_papers) =>
        /\ batch.fetched = 1..batch.max_papers
        /\ \A g \in DOMAIN batch.gets : batch.gets[g].index \in 1..batch.max_papers
        /\ \A k \in RemainingPapers :
              /\ batch.papers_with_content[k].full_content.content_type = "abstract"
              /\ batch.papers_with_content[k].full_content.content
                    = Plain(IF batch.papers[k].abstract = Missing
                            THEN "No abstract available."
                            ELSE batch.papers[k].abstract)

PdfGiven(i) == Truthy(Get(batch.papers[i].pdfUrl, None))

PageGiven(i) == Truthy(Get(batch.papers[i].url, ""))

\* The PDF GET for paper i was sent and succeeded.
PdfSucceeded(i) == PdfGiven(i) /\ ~GetFailed(GetsFor(i)[1].outcome)

PageFetched(i) == \E k \in DOMAIN GetsFor(i) : GetsFor(i)[k].source = "jina_page"

\* The page GET for paper i was sent and succeeded.
PageSucceeded(i) == PageFetched(i) /\ ~GetFailed(GetsFor(i)[Len(GetsFor(i))].outcome)

Content(i) == batch.papers_with_content[i].full_content

\* PDF, then page, then abstract, first success wins; all but the test that
\* tells full_text from partial.
FetchOrder(i) ==
    /\ Len(GetsFor(i)) <= 2
    /\ \A k \in DOMAIN GetsFor(i) :
          /\ GetsFor(i)[k].source = "jina_pdf" => k = 1
          /\ GetsFor(i)[k].source = "jina_page" => k = Len(GetsFor(i))
    /\ PdfGiven(i) <=> (Len(GetsFor(i)) >= 1 /\ GetsFor(i)[1].source = "jina_pdf")
    /\ PageFetched(i) <=> (PageGiven(i) /\ ~PdfSucceeded(i))
    /\ Content(i).source = "jina_pdf" <=> PdfSucceeded(i)
    /\ Content(i).source = "jina_page" <=> PageSucceeded(i)
    /\ Content(i).source = "abstract" <=> (~PdfSucceeded(i) /\ ~PageSucceeded(i))
    /\ Content(i).source = "jina_page" => Content(i).content_type = "partial"
    /\ Content(i).source = "abstract" =>
          /\ Content(i).content_type = "abstract"
          /\ Content(i).content
                = Plain(IF Truthy(batch.papers[i].abstract)
                        THEN batch.papers[i].abstract
                        ELSE "No content available.")
    /\ Content(i).source = "jina_pdf" => Content(i).content_type \in {"full_text", "partial"}

\* C17 as claimed: fetch_paper_content follows PDF, then page, then abstract,
\* and a successful PDF fetch is full_text exactly when the text the reader
\* returned is longer than 2000 characters.
C17_FullTextByReturnedLength ==
    endpoint = "fetch_batch" =>
        \A i \in batch.fetched :
            /\ FetchOrder(i)
            /\ PdfSucceeded(i) =>
                  (Content(i).content_type = "full_text"
                      <=> GetsFor(i)[1].outcome.text.len > 2000)

\* C17, amended: fetch_paper_content follows PDF, then page, then abstract,
\* first success wins: the page is fetched only when there is no pdfUrl or
\* the PDF GET failed, the abstract is used only when neither succeeded; a
\* successful PDF fetch is full_text exactly when the text left by
\* smart_truncate, which is the content returned, is longer than 2000
\* characters, a successful page fetch is partial, and the abstract branch
\* returns the abstract or "No content available.".
C17_FetchOrderAndType ==
    endpoint = "fetch_batch" =>
        \A i \in batch.fetched :
            /\ FetchOrder(i)
            /\ PdfSucceeded(i) =>
                  /\ Content(i).content = smart_truncate(GetsFor(i)[1].outcome.text)
                  /\ Content(i).content_type = "full_text"
                        <=> Content(i).content.len > 2000

\* C17 witness: the PDF GET returned 16000 characters of which 1000 are left
\* after the skipped sections are removed, and the paper is marked partial.
C17_Witness ==
    /\ endpoint = "fetch_batch"
    /\ 1 \in batch.fetched
    /\ PdfSucceeded(1)
    /\ GetsFor(1)[1].outcome.text.id = "hugeRefs"
    /\ Content(1).content_type = "partial"
    /\ Content(1).content.len = 1000

\* The text the reader returned for paper i, when one of its GETs succeeded.
RawText(i) == GetsFor(i)[Len(GetsFor(i))].outcome.text

Fetched(i) == PdfSucceeded(i) \/ PageSucceeded(i)

\* C18 as claimed: for a text longer than 15000 characters the output of
\* smart_truncate is at most 15000 + 42 characters long and ends with the
\* truncation marker.
C18_LongTextEndsWithMarker ==
    endpoint = "fetch_batch" =>
        \A i \in batch.fetched :
            (Fetched(i) /\ RawText(i).len > 15000) =>
                /\ Content(i).content.len <= 15000 + 42
                /\ Content(i).content.marker

\* C18, amended: for a text longer than 15000 characters the output of
\* smart_truncate is at most 15000 + 42 characters long; it ends with the
\* truncation marker exactly when the text is still longer than 15000
\* characters after the skipped sections are removed and the runs of newlines
\* collapsed, and otherwise it is that shorter text, stripped, without marker.
C18_TruncatedWithinBudget ==
    endpoint = "fetch_batch" =>
        \A i \in batch.fetched :
            (Fetched(i) /\ RawText(i).len > 15000) =>
                /\ Content(i).content.len <= 15000 + 42
                /\ Content(i).content.marker <=> RawText(i).keep > 15000
                /\ ~Content(i).content.marker =>
                      Content(i).content.len = RawText(i).keep - RawText(i).lead
                /\ Content(i).content.lead = 0

\* C18 witness: a text of 20000 characters, 18000 of them kept, came back
\* cut, with the marker.
C18_Witness ==
    /\ endpoint = "fetch_batch"
    /\ 1 \in batch.fetched
    /\ Fetched(1)
    /\ RawText(1).id = "huge"
    /\ Content(1).content.marker
    /\ Content(1).content.len = 15000 + 42 - 3

\* C19: for a text of at most 15000 characters the output of smart_truncate
\* is the input: no section removed, no whitespace collapsed or stripped, no
\* marker added.
C19_ShortTextUnchanged ==
    endpoint = "fetch_batch" =>
        \A i \in batch.fetched :
            (Fetched(i) /\ RawText(i).len <= 15000) =>
                Content(i).content = RawText(i)

\* C19 witness: a text of 1500 characters that starts with whitespace and
\* holds a skipped section came back as it was.
C19_Witness ==
    /\ endpoint = "fetch_batch"
    /\ 1 \in batch.fetched
    /\ Fetched(1)
    /\ RawText(1).id = "short"
    /\ Content(1).content.len = 1500
    /\ Content(1).content.lead = 2

\* The reply gives no usable list: the call failed, the reply is not JSON,
\* has no sub_queries list, or the list is empty.
NoUsableList(outcome) ==
    outcome.kind \in DecomposerFailures \/ outcome.sub_queries = <<>>

\* C20: generate_sub_queries never raises and returns a non-empty sub-query
\* list: the one-element list of base_keywords when the LLM key is missing,
\* the LLM call failed, the reply is not JSON or gives no usable sub_queries
\* list (no such key, not a list, an empty list), and the LLM's list
\* unchanged otherwise.
C20_SubQueriesNeverEmpty ==
    (endpoint = "decompose" /\ dec.pc = "returned") =>
        /\ ~dec.raised
        /\ Len(dec.sub_queries) >= 1
        /\ dec.sub_queries = IF ~GROQ_API_KEY \/ NoUsableList(dec.outcome)
                             THEN <<BaseKeywords>>
                             ELSE dec.outcome.sub_queries

\* C20 witness: with the key configured the LLM replied with an empty list
\* and the base keywords came back as the only sub-query.
C20_Witness ==
    /\ endpoint = "decompose"
    /\ dec.pc = "returned"
    /\ GROQ_API_KEY
    /\ dec.outcome.kind = "list"
    /\ dec.outcome.sub_queries = <<>>
    /\ dec.sub_queries = <<BaseKeywords>>

\* A run of start_deep_research that returned its result.
Completed == endpoint = "deep_research" /\ pc = "COMPLETE"

Blueprint == response.body.content_blueprint

\* C21: in every completed run of start_deep_research the references list
\* of the blueprint is as long as the number of distinct papers handed to
\* the Narrator.
C21_ReferencesMatchNarratorInput ==
    Completed =>
        /\ handoff.narrator_called
        /\ Len(Blueprint.references) = Cardinality(Range(handoff.narrator_papers))

\* C21 witness: a completed run over more papers than the stages read, with
\* as many references as the Narrator got papers.
C21_Witness ==
    /\ Completed
    /\ response.body.total_papers > AnalysisLimit
    /\ Len(handoff.narrator_papers) = AnalysisLimit
    /\ Len(Blueprint.references) = AnalysisLimit

\* The reference is that of paper p of the search: its title, year and url.
DerivedFrom(reference, p) ==
    /\ reference.title = p.title
    /\ reference.year = p.year
    /\ reference.url = p.url

\* Insights naming a paper that the search did not return.
UnsourcedInsights ==
    {i \in DOMAIN insights : insights[i].paperId \notin seen_ids}

\* C22: in every completed run of start_deep_research each reference of the
\* blueprint is derived from a paper of the run's deduplicated paper set
\* (same title, year and url), whatever the Insight Extractor, the Narrator
\* and the Editor returned.
C22_ReferencesComeFromSearch ==
    Completed =>
        \A i \in DOMAIN Blueprint.references :
            \E j \in DOMAIN all_papers :
                DerivedFrom(Blueprint.references[i], all_papers[j])

\* C22 witness: the Extractor's LLM named a paper the search never returned,
\* and the completed run's references are still those of the papers found.
C22_Witness ==
    /\ Completed
    /\ UnsourcedInsights # {}
    /\ Len(Blueprint.references) = Len(all_papers)
    /\ \A i \in DOMAIN all_papers :
          DerivedFrom(Blueprint.references[i], all_papers[i])

\* One of the four LLM stages, called on its own, has returned or raised.
StageReturned ==
    \/ endpoint = "decompose" /\ dec.pc = "returned"
    \/ endpoint \in {"analyze", "generate_report", "final_script"}
       /\ direct.pc = "returned"

\* The LLM calls the stage made.
StageLlm == IF endpoint = "decompose" THEN dec.llm ELSE direct.llm

\* The stage ended in an error: an exception, or the Editor's error value.
StageReportsError ==
    CASE endpoint = "decompose" -> dec.raised
      [] endpoint = "analyze" -> direct.error.raised
      [] endpoint = "generate_report" -> direct.error.raised
      [] endpoint = "final_script" -> direct.value.error

\* C23 as claimed: with the LLM key missing, each of the Decomposer, the
\* Insight Extractor, the Narrator and the Editor makes no LLM call and ends
\* in an error of its own; none returns a degraded result in its place.
C23_MissingKeyIsAlwaysAnError ==
    (StageReturned /\ ~GROQ_API_KEY) =>
        /\ StageLlm = {}
        /\ StageReportsError

\* C23 as amended: with the LLM key missing each stage makes no LLM call;
\* the Insight Extractor raises HTTP 500 "GROQ_API_KEY not configured" and
\* the Editor returns the error value "API key not configured", while the
\* Decomposer returns the one-element list of base_keywords with a
\* reasoning naming the key and the Narrator returns the string
\* "Error: API key not configured" in place of a report.
C23_MissingKeyPerStage ==
    (StageReturned /\ ~GROQ_API_KEY) =>
        /\ StageLlm = {}
        /\ CASE endpoint = "decompose" ->
                    /\ ~dec.raised
                    /\ dec.sub_queries = <<BaseKeywords>>
                    /\ dec.reasoning = "API key not configured"
             [] endpoint = "analyze" ->
                    direct.error = HTTPException(500, "GROQ_API_KEY not configured")
             [] endpoint = "generate_report" ->
                    /\ ~direct.error.raised
                    /\ direct.value = "Error: API key not configured"
             [] endpoint = "final_script" ->
                    direct.value = EditorError("API key not configured")

\* C23 witness: the Narrator, called without the key, returned its error
\* string and made no LLM call.
C23_Witness ==
    /\ endpoint = "generate_report"
    /\ direct.pc = "returned"
    /\ ~GROQ_API_KEY
    /\ direct.llm = {}
    /\ ~direct.error.raised
    /\ direct.value = "Error: API key not configured"

\* The Insight Extractor has been called in this run.
ExtractorCalled == endpoint = "deep_research" /\ "extractor" \in calls

\* The papers among the first ten of the run that have no abstract.
BareAmongFirstTen ==
    {i \in 1..Min(AnalysisLimit, Len(papers_with_content)) :
        ~Truthy(papers_with_content[i].abstract)}

\* C24: in start_deep_research the batch handed to the Insight Extractor
\* has at most 10 papers, each with a non-empty abstract; a paper without
\* an abstract is never in it.
C24_ExtractorBatchBounded ==
    ExtractorCalled =>
        /\ Len(analysis_input) <= AnalysisLimit
        /\ \A i \in DOMAIN analysis_input : Truthy(analysis_input[i].abstract)
        /\ \A i \in BareAmongFirstTen :
              \A j \in DOMAIN analysis_input :
                  analysis_input[j].paperId # papers_with_content[i].paperId

\* C24 witness: of more than ten papers one of the first ten has no
\* abstract, and the Extractor got the other nine.
C24_Witness ==
    /\ ExtractorCalled
    /\ Len(papers_with_content) > AnalysisLimit
    /\ BareAmongFirstTen # {}
    /\ Len(analysis_input) = AnalysisLimit - 1

\* The search tasks still in flight.
InFlight == {i \in DOMAIN search_results : ~search_results[i].done}

\* C25: in the multi-search fan-out every sub-query has its search task
\* from the start of the wait on, and the merge into the accumulator (paper
\* list and seen-id set) starts only when every task has completed,
\* successfully or not: while a task is in flight the handler is still
\* waiting and the accumulator is untouched.
C25_JoinThenMerge ==
    /\ pc = "SEARCH" => Len(search_results) = Len(sub_queries)
    /\ InFlight # {} =>
          /\ pc = "SEARCH"
          /\ all_papers = <<>>
          /\ seen_ids = {}

\* C25 witness: one search has returned papers, another is still in flight,
\* and nothing has been merged.
C25_Witness ==
    /\ pc = "SEARCH"
    /\ InFlight # {}
    /\ \E i \in DOMAIN search_results :
          search_results[i].done /\ search_results[i].papers # <<>>
    /\ all_papers = <<>>
    /\ seen_ids = {}

\* generate_final_script, called on its own, has returned.
EditorReturned == endpoint = "final_script" /\ direct.pc = "returned"

\* The returned dict holds a narrative with all four fields.
WholeNarrative(result) ==
    result.has_narrative /\ DOMAIN result.narrative = NarrativeFields

\* C26: for every LLM outcome generate_final_script returns either an
\* explicit error value or a narrative with all four fields hook,
\* introduction, deep_dive and conclusion; JSON without the narrative or
\* without one of its fields is never returned as a success.
C26_ScriptIsErrorOrWhole ==
    EditorReturned => (direct.value.error \/ WholeNarrative(direct.value))

\* The strings generate_research_report returns in place of a report.
NarratorErrorStrings == {"Error: API key not configured",
                         "Error generating research report"}

\* The Narrator could not write a report: no key, or the LLM call failed.
NarratorFailed(key, outcome) == ~key \/ outcome = "llm_fail"

\* C27: generate_research_report never raises: with the key missing or the
\* LLM call failing it returns an error string in place of a report, so in
\* start_deep_research the run never ends at NARRATE and the Editor is
\* called with the Narrator's string as the report.
C27_NarratorNeverRaises ==
    /\ (endpoint = "generate_report" /\ direct.pc = "returned") =>
          /\ ~direct.error.raised
          /\ NarratorFailed(GROQ_API_KEY, direct.outcome)
                => direct.value \in NarratorErrorStrings
          /\ ~NarratorFailed(GROQ_API_KEY, direct.outcome)
                => direct.value \notin NarratorErrorStrings
    /\ endpoint = "deep_research" =>
          /\ pc = "FAILED" => LastStage # "NARRATE"
          /\ handoff.narrator_called =>
                (pc = "EDIT" \/ handoff.editor_called)
          /\ handoff.editor_called => handoff.editor_report = research_report

\* C27 witness: the Narrator's LLM call failed, the Editor was called with
\* the error string as the report, and the run completed with it.
C27_Witness ==
    /\ Completed
    /\ handoff.editor_called
    /\ handoff.editor_report = "Error generating research report"
    /\ response.body.research_report = "Error generating research report"

\* The fields of a paper dict.
PaperFields == {"paperId", "title", "abstract", "year", "url", "pdfUrl"}

ContentTypes == {"full_text", "partial", "abstract"}

\* The entry is the paper with its fields as they were, and a full_content
\* block added.
KeepsPaper(entry, paper) ==
    /\ DOMAIN entry = PaperFields \cup {"full_content"}
    /\ \A f \in PaperFields : entry[f] = paper[f]
    /\ entry.full_content.content_type \in ContentTypes

\* C28: fetch_multiple_papers_content returns one entry per input paper, in
\* input order, for every max_papers and every mix of fetch successes and
\* failures; each entry keeps the fields of its paper unchanged and adds one
\* full_content block whose content_type is full_text, partial or abstract.
C28_OneEntryPerPaper ==
    BatchDone =>
        /\ Len(batch.papers_with_content) = Len(batch.papers)
        /\ \A i \in DOMAIN batch.papers :
              KeepsPaper(batch.papers_with_content[i], batch.papers[i])

\* C28 witness: three papers with a limit of one; the first was fetched in
\* full, the other two were not fetched, and all three are returned in order.
C28_Witness ==
    /\ BatchDone
    /\ Len(batch.papers) = 3
    /\ batch.max_papers = 1
    /\ batch.papers_with_content[1].full_content.content_type = "full_text"
    /\ batch.papers[2] # batch.papers[3]
    /\ \A i \in 1..3 : KeepsPaper(batch.papers_with_content[i], batch.papers[i])

\* A negative limit: all papers but the last two are fetched, and the result
\* has one entry per paper still.
NegativeLimitKeepsAll ==
    /\ BatchDone
    /\ batch.max_papers < 0
    /\ Len(batch.papers) = 3
    /\ batch.fetched = {1}
    /\ Len(batch.papers_with_content) = 3

\* The papers of the run whose content is full text.
FullTextPapers ==
    {i \in DOMAIN papers_with_content :
        papers_with_content[i].full_content.content_type = "full_text"}

\* C29: in every completed run of start_deep_research papers_with_full_text
\* is the number of the run's papers whose content_type is full_text; it is
\* 0 when enable_full_text is false and at most min(8, total_papers) when it
\* is true, total_papers being the size of the deduplicated paper set.
C29_FullTextCount ==
    Completed =>
        /\ response.body.papers_with_full_text = Cardinality(FullTextPapers)
        /\ response.body.total_papers = Len(all_papers)
        /\ ~enable_full_text => response.body.papers_with_full_text = 0
        /\ enable_full_text =>
              response.body.papers_with_full_text
                  <= Min(FetchMaxPapers, response.body.total_papers)

\* C29 witness: more than eight papers, each with a PDF that reads as full
\* text; eight are counted, and the ninth has its abstract as content.
C29_Witness ==
    /\ Completed
    /\ enable_full_text
    /\ response.body.total_papers > FetchMaxPapers
    /\ response.body.papers_with_full_text = FetchMaxPapers
    /\ Truthy(papers_with_content[FetchMaxPapers + 1].pdfUrl)
    /\ papers_with_content[FetchMaxPapers + 1].full_content.content_type = "abstract"

\* A run of start_deep_research.
DeepRun == endpoint = "deep_research"

\* The run has ended: it returned its result, or raised an HTTP error with
\* status 404 or 500.
RunEnded ==
    \/ pc = "COMPLETE" /\ response.kind = "result" /\ response.body.present
    \/ pc = "FAILED" /\ response.kind = "error" /\ response.status \in {404, 500}

\* Nothing has been returned or raised while the run goes on.
RunGoesOn == pc \notin {"COMPLETE", "FAILED"} /\ response = NoResponse

\* No stage is entered a second time.
NoStageTwice ==
    \A i, j \in DOMAIN stages : stages[i] = stages[j] => i = j

\* C30: provided every outbound call returns or fails in the end, every run
\* of start_deep_research ends, in exactly one of two ways: COMPLETE with a
\* result, or an HTTP error response with status 404 or 500.  No stage is
\* entered twice, and nothing else leaves the run.
C30_EveryRunEnds ==
    /\ [](DeepRun => (NoStageTwice /\ (RunEnded \/ RunGoesOn)))
    /\ DeepRun ~> RunEnded

\* C30 witness: a run that the Insight Extractor ended with HTTP 500 after
\* the fetch stage.
C30_Witness ==
    /\ DeepRun
    /\ pc = "FAILED"
    /\ LastStage = "EXTRACT_INSIGHTS"
    /\ "fetcher" \in calls
    /\ response.status = 500

====
